---------------------------- MODULE GatewayProofs ----------------------------
\* Proofs about what a request to /api meets, for any clients, tokens, keys,
\* lives, budgets, windows and orders of cache answers.
\*
\* Sign-out: OnlyKeptCallsOutliveSignOut is not inductive.  It needs to know that no
\* request with a signed-out token is waiting for the cache, unless its question is
\* kept from a broken connection.  This needs the order of the open calls: a
\* sign-out waits behind every request that passed the set before it, and no
\* request passes the set after it; and it needs that what is on the wire while
\* there is no connection is kept, because then a sign-out does not wait behind it.
\*
\* Budgets: LessThanTwoBudgets follows from what a counter knows of the history
\* (Watched), through every way in which counters begin, end and are evicted.
EXTENDS Gateway, FiniteSetTheorems, WellFoundedInduction, TLAPS

-----------------------------------------------------------------------------
\* Authentication

Calls == [op : {"get", "set"}, token : Tokens, route : Routes \cup {"none"}, ttl : Nat,
          kept : BOOLEAN]

\* A token whose sign-out is answered (in out), or open (in the queue q), is in
\* the set of the process.
SignOutsAreRemembered(q, set, out) ==
  /\ out \subseteq set
  /\ \A i \in 1 .. Len(q) : q[i].op = "set" => q[i].token \in set

\* No open request has a signed-out token, but those that are kept.
Asks(c) == c.op = "get" /\ ~c.kept
NobodyWaitsSignedOut(q, out) ==
  \A i \in 1 .. Len(q) : Asks(q[i]) => q[i].token \notin out

\* Behind an open sign-out no request with its token is open, but those.
SignOutsWaitLast(q) ==
  \A i, j \in 1 .. Len(q) :
    (q[i].op = "set" /\ i < j /\ Asks(q[j])) => q[i].token # q[j].token

QueueOK(q, set, out) ==
  /\ q \in Seq(Calls)
  /\ SignOutsAreRemembered(q, set, out)
  /\ NobodyWaitsSignedOut(q, out)
  /\ SignOutsWaitLast(q)

AccessInv ==
  /\ clock \in Nat
  /\ AccessOK
  /\ QueueOK(wire, revokedLocally, signedOut)
  /\ QueueOK(tasks, revokedLocally, signedOut)
  /\ link = "redis" => tasks = <<>>
  /\ link # "redis" => \A i \in 1 .. Len(wire) : wire[i].kept

\* What is left of a queue when its first element is taken.
LEMMA TailFacts ==
  ASSUME NEW S, NEW s \in Seq(S), s # <<>>
  PROVE  /\ Tail(s) \in Seq(S) /\ Head(s) = s[1] /\ s[1] \in S
         /\ 1 \in 1 .. Len(s)
         /\ Len(Tail(s)) \in Nat
         /\ \A i \in 1 .. Len(Tail(s)) :
              Tail(s)[i] = s[i + 1] /\ i + 1 \in 1 .. Len(s)
  OBVIOUS

\* What a queue is after an element joins it.
LEMMA AppendFacts ==
  ASSUME NEW S, NEW s \in Seq(S), NEW e \in S
  PROVE  /\ Append(s, e) \in Seq(S)
         /\ Len(s) \in Nat
         /\ Len(Append(s, e)) = Len(s) + 1
         /\ \A i \in 1 .. Len(s) : Append(s, e)[i] = s[i]
         /\ Append(s, e)[Len(s) + 1] = e
  OBVIOUS

\* Taking the first call keeps the queue in order; when it is a sign-out, its
\* token may from now on count as signed out.
LEMMA TakenFromQueue ==
  ASSUME NEW q, NEW set, NEW set2, NEW out, NEW out2, QueueOK(q, set, out), q # <<>>,
         set \subseteq set2,
         out2 \subseteq out \cup (IF Head(q).op = "set" THEN {Head(q).token} ELSE {})
  PROVE  QueueOK(Tail(q), set2, out2)
<1>1. q \in Seq(Calls)
  BY DEF QueueOK
<1>2. /\ Tail(q) \in Seq(Calls) /\ Head(q) = q[1]
      /\ 1 \in 1 .. Len(q) /\ Len(Tail(q)) \in Nat
      /\ \A i \in 1 .. Len(Tail(q)) :
           Tail(q)[i] = q[i + 1] /\ i + 1 \in 1 .. Len(q)
  BY <1>1, TailFacts, Zenon
<1> DEFINE r == Tail(q)
           n == Len(r)
           m == Len(q)
           first == Head(q)
<1>3. first.op = "set" => first.token \in set
  BY <1>2 DEF QueueOK, SignOutsAreRemembered
<1>4. \A i \in 1 .. n : first.op = "set" /\ Asks(r[i]) => first.token # r[i].token
  BY <1>2 DEF QueueOK, SignOutsWaitLast
<1>5. SignOutsAreRemembered(r, set2, out2)
  BY <1>2, <1>3 DEF QueueOK, SignOutsAreRemembered
<1>6. NobodyWaitsSignedOut(r, out2)
  BY <1>2, <1>4 DEF QueueOK, NobodyWaitsSignedOut
<1>7. SignOutsWaitLast(r)
  <2>1. \A i, j \in 1 .. n : i < j => i + 1 < j + 1
    BY <1>2
  <2> QED
    BY <1>2, <2>1 DEF QueueOK, SignOutsWaitLast
<1> QED
  BY <1>2, <1>5, <1>6, <1>7 DEF QueueOK

\* A request whose token is not in the set may join the queue, and so may a
\* sign-out whose token is.
LEMMA JoinsQueue ==
  ASSUME NEW q, NEW set, NEW out, QueueOK(q, set, out), NEW c \in Calls,
         c.op = "set" => c.token \in set,
         c.op = "get" => c.token \notin set
  PROVE  QueueOK(Append(q, c), set, out)
<1>1. q \in Seq(Calls)
  BY DEF QueueOK
<1> DEFINE r == Append(q, c)
           m == Len(q)
<1>2. /\ r \in Seq(Calls) /\ m \in Nat /\ Len(r) = m + 1
      /\ \A i \in 1 .. m : r[i] = q[i]
      /\ r[m + 1] = c
  BY <1>1, AppendFacts
<1>3. \A i \in 1 .. Len(r) : i \in 1 .. m \/ i = m + 1
  BY <1>2
<1> HIDE DEF r, m
<1>4. \A i \in 1 .. Len(r) : (i \in 1 .. Len(q) /\ r[i] = q[i]) \/ (i = m + 1 /\ r[i] = c)
  BY <1>2, <1>3 DEF m
<1>5. SignOutsAreRemembered(r, set, out)
  BY <1>4 DEF QueueOK, SignOutsAreRemembered
<1>6. NobodyWaitsSignedOut(r, out)
  BY <1>4 DEF QueueOK, NobodyWaitsSignedOut, SignOutsAreRemembered, Asks
<1>7. SignOutsWaitLast(r)
  <2> SUFFICES ASSUME NEW i \in 1 .. Len(r), NEW j \in 1 .. Len(r),
                      r[i].op = "set", i < j, Asks(r[j])
               PROVE  r[i].token # r[j].token
    BY DEF SignOutsWaitLast
  <2>1. i \in 1 .. Len(q) /\ r[i] = q[i]
    BY <1>2, <1>4 DEF m
  <2>2. CASE j \in 1 .. Len(q) /\ r[j] = q[j]
    BY <2>1, <2>2 DEF QueueOK, SignOutsWaitLast
  <2>3. CASE r[j] = c
    BY <2>1, <2>3 DEF QueueOK, SignOutsAreRemembered, Asks
  <2> QED
    BY <1>4, <2>2, <2>3
<1> QED
  BY <1>2, <1>5, <1>6, <1>7 DEF QueueOK, r

\* A queue of kept calls is in order whatever has been signed out.
LEMMA KeptQueue ==
  ASSUME NEW q \in Seq(Calls), NEW set, NEW out, out \subseteq set,
         \A i \in 1 .. Len(q) : q[i].kept,
         \A i \in 1 .. Len(q) : q[i].op = "set" => q[i].token \in set
  PROVE  QueueOK(q, set, out)
  BY DEF QueueOK, SignOutsAreRemembered, NobodyWaitsSignedOut, SignOutsWaitLast, Asks

\* Keeping the calls of a queue changes nothing else about them.
KeptCall(c) == [c EXCEPT !.kept = TRUE]
LEMMA KeptFacts ==
  ASSUME NEW q \in Seq(Calls), NEW r, r = [i \in DOMAIN q |-> [q[i] EXCEPT !.kept = TRUE]]
  PROVE  /\ r \in Seq(Calls) /\ Len(r) = Len(q)
         /\ \A i \in 1 .. Len(q) :
              r[i].kept /\ r[i].op = q[i].op /\ r[i].token = q[i].token /\ r[i].ttl = q[i].ttl
<1>1. \A c \in Calls :
        /\ KeptCall(c) \in Calls /\ KeptCall(c).kept
        /\ KeptCall(c).op = c.op /\ KeptCall(c).token = c.token /\ KeptCall(c).ttl = c.ttl
  BY DEF KeptCall, Calls
<1>2. r = [i \in 1 .. Len(q) |-> KeptCall(q[i])] /\ \A i \in 1 .. Len(q) : q[i] \in Calls
  BY DEF KeptCall
<1> HIDE DEF KeptCall
<1>3. \A i \in 1 .. Len(q) : KeptCall(q[i]) \in Calls
  BY <1>1, <1>2
<1>4. r \in Seq(Calls) /\ Len(r) = Len(q) /\ \A i \in 1 .. Len(q) : r[i] = KeptCall(q[i])
  <2>1. Len(q) \in Nat
    OBVIOUS
  <2>2. [i \in 1 .. Len(q) |-> KeptCall(q[i])] \in Seq(Calls)
    BY <1>3, <2>1
  <2>3. DOMAIN r = 1 .. Len(q) /\ \A i \in 1 .. Len(q) : r[i] = KeptCall(q[i])
    BY <1>2, Zenon
  <2>4. r \in Seq(Calls)
    BY <1>2, <2>2, Zenon
  <2> QED
    BY <2>1, <2>3, <2>4
<1> QED
  BY <1>1, <1>2, <1>4

\* The set of the process may grow.
LEMMA SetGrows ==
  ASSUME NEW q, NEW set, NEW set2, NEW out, QueueOK(q, set, out), set \subseteq set2
  PROVE  QueueOK(q, set2, out)
  BY DEF QueueOK, SignOutsAreRemembered, NobodyWaitsSignedOut, SignOutsWaitLast

LEMMA EmptyQueue ==
  ASSUME NEW set, NEW out, out \subseteq set
  PROVE  QueueOK(<<>>, set, out)
  BY DEF QueueOK, SignOutsAreRemembered, NobodyWaitsSignedOut, SignOutsWaitLast

\* The initial states satisfy the invariant.
LEMMA AccessInitInv == clock = 0 /\ AccessInit => AccessInv
<1> SUFFICES ASSUME clock = 0, AccessInit PROVE AccessInv
  OBVIOUS
<1>1. AccessOK /\ QueueOK(<<>>, revokedLocally, signedOut)
  BY EmptyQueue DEF AccessInit, AccessOK
<1> QED
  BY <1>1 DEF AccessInit, AccessInv

\* A step that keeps the types and the queues in order keeps the invariant.
LEMMA StepInv ==
  ASSUME clock' \in Nat, revokedLocally' \in SUBSET Tokens,
         link' \in {"redis", "memory", "down", "gone"}, redis' \in [Tokens -> Nat],
         revokedKeys' \in SUBSET ApiKeys, signedOut' \in SUBSET Tokens,
         durable' \in SUBSET Tokens,
         QueueOK(wire', revokedLocally', signedOut'),
         QueueOK(tasks', revokedLocally', signedOut'),
         link' = "redis" => tasks' = <<>>,
         link' # "redis" => \A i \in 1 .. Len(wire') : wire'[i].kept
  PROVE  AccessInv'
<1>1. wire' \in Seq(Calls) /\ tasks' \in Seq(Calls)
  BY DEF QueueOK
<1>2. AccessOK'
  BY <1>1 DEF AccessOK, Calls
<1>3. QueueOK(wire, revokedLocally, signedOut)' /\ QueueOK(tasks, revokedLocally, signedOut)'
  OBVIOUS
<1> QED
  BY <1>2, <1>3 DEF AccessInv

\* A new request asks the cache only if the set does not know its token.
LEMMA AuthenticateInv ==
  ASSUME AccessInv, clock' = clock, NEW t \in Tokens, NEW route \in Routes,
         Authenticate(t, route)
  PROVE  AccessInv'
<1> DEFINE c == Get(t, route)
<1>1. c \in Calls /\ c.op = "get" /\ c.token = t
  BY DEF Get, Calls
<1>2. UNCHANGED <<revokedLocally, link, redis, revokedKeys, signedOut, durable>>
  BY DEF Authenticate
<1>3. t \notin revokedLocally =>
        /\ QueueOK(Append(wire, c), revokedLocally, signedOut)
        /\ QueueOK(Append(<<>>, c), revokedLocally, signedOut)
  <2>1. QueueOK(wire, revokedLocally, signedOut) /\ QueueOK(<<>>, revokedLocally, signedOut)
    BY EmptyQueue DEF AccessInv, QueueOK, SignOutsAreRemembered
  <2> HIDE DEF c
  <2> QED
    BY <1>1, <2>1, JoinsQueue
<1>4. Append(<<>>, c) = <<c>>
  OBVIOUS
<1>5. \/ wire' = wire /\ tasks' = tasks
      \/ t \notin revokedLocally /\ link = "redis" /\ wire' = Append(wire, c) /\ tasks' = tasks
      \/ t \notin revokedLocally /\ link # "redis" /\ tasks' = <<c>> /\ wire' = wire
  BY DEF Authenticate
<1> HIDE DEF c
<1> QED
  BY <1>2, <1>3, <1>4, <1>5, StepInv DEF AccessInv, AccessOK

\* The first call of a queue that is not empty is a call.
LEMMA FirstIsCall ==
  ASSUME AccessInv
  PROVE  /\ wire # <<>> => Oldest \in Calls /\ Oldest = wire[1] /\ 1 \in 1 .. Len(wire)
         /\ tasks # <<>> => First \in Calls /\ First = tasks[1] /\ 1 \in 1 .. Len(tasks)
  BY TailFacts, Zenon DEF AccessInv, QueueOK, Oldest, First

\* The handler of an authenticated request leaves its queue in order: a sign-out
\* joins the queue when its token is in the set.
LEMMA HandledQueue ==
  ASSUME NEW q, NEW set, NEW out, QueueOK(q, set, out), q # <<>>, clock \in Nat,
         NEW set2, set2 = set \cup IF Allowed(Head(q).token, Head(q).route)
                                     /\ Head(q).route \in SignsOut THEN {Head(q).token} ELSE {}
  PROVE  QueueOK(Following(Head(q), Tail(q)), set2, out)
<1> DEFINE t == Head(q).token
           c == Set(t, Ttl(t))
<1>1. t \in Tokens
  <2>1. Head(q) \in Calls
    BY TailFacts DEF QueueOK
  <2> QED
    BY <2>1 DEF Calls
<1>2. c \in Calls /\ c.op = "set" /\ c.token = t
  BY <1>1, AccessAssumption DEF Set, Ttl, Calls
<1>3. QueueOK(Tail(q), set2, out)
  BY TakenFromQueue
<1> HIDE DEF c
<1>4. t \in set2 => QueueOK(Append(Tail(q), c), set2, out)
  BY <1>2, <1>3, JoinsQueue
<1> QED
  BY <1>3, <1>4 DEF Following, c

LEMMA HandleFacts ==
  ASSUME NEW call \in Calls, NEW via, Handle(call, via), revokedLocally \in SUBSET Tokens
  PROVE  /\ revokedLocally' = revokedLocally \cup IF Allowed(call.token, call.route)
                                /\ call.route \in SignsOut THEN {call.token} ELSE {}
         /\ revokedLocally' \in SUBSET Tokens
  BY DEF Handle, Calls

\* Each answer of the cache keeps the invariant.
LEMMA CacheSettlesInv ==
  ASSUME AccessInv, clock' = clock, CacheSettles
  PROVE  AccessInv'
<1> USE FirstIsCall
<1>1. CASE RedisAnswersGet
  <2>1. /\ link' = link /\ link = "redis" /\ tasks' = tasks /\ tasks = <<>>
        /\ wire # <<>> /\ Oldest.op = "get" /\ Oldest \in Calls
    BY <1>1 DEF RedisAnswersGet, AccessInv
  <2>2. CASE wire' = Tail(wire) /\ revokedLocally' = revokedLocally
    <3>1. QueueOK(Tail(wire), revokedLocally, signedOut)
      BY <2>1, TakenFromQueue DEF AccessInv
    <3> QED
      BY <1>1, <2>1, <2>2, <3>1, StepInv DEF RedisAnswersGet, AccessInv, AccessOK
  <2>3. CASE Handle(Oldest, "redis") /\ wire' = Following(Oldest, Tail(wire))
    <3>1. /\ revokedLocally' = revokedLocally \cup IF Allowed(Oldest.token, Oldest.route)
                                  /\ Oldest.route \in SignsOut THEN {Oldest.token} ELSE {}
          /\ revokedLocally' \in SUBSET Tokens
      BY <2>1, <2>3, HandleFacts DEF AccessInv, AccessOK
    <3>2. QueueOK(wire', revokedLocally', signedOut)
      BY <2>1, <2>3, <3>1, HandledQueue DEF Oldest, AccessInv
    <3>3. QueueOK(tasks', revokedLocally', signedOut)
      BY <2>1, <3>1, SetGrows DEF AccessInv
    <3> QED
      BY <1>1, <2>1, <3>1, <3>2, <3>3, StepInv DEF RedisAnswersGet, AccessInv, AccessOK
  <2> QED
    BY <1>1, <2>2, <2>3 DEF RedisAnswersGet
<1>2. CASE FallsBackGet
  <2>1. /\ link' = link /\ link # "redis" /\ wire' = wire /\ tasks # <<>> /\ First \in Calls
        /\ Handle(First, "fallback") /\ tasks' = Following(First, Tail(tasks))
    BY <1>2 DEF FallsBackGet, AccessInv
  <2>2. /\ revokedLocally' = revokedLocally \cup IF Allowed(First.token, First.route)
                                /\ First.route \in SignsOut THEN {First.token} ELSE {}
        /\ revokedLocally' \in SUBSET Tokens
    BY <2>1, HandleFacts DEF AccessInv, AccessOK
  <2>3. QueueOK(tasks', revokedLocally', signedOut)
    BY <2>1, <2>2, HandledQueue DEF First, AccessInv
  <2>4. QueueOK(wire', revokedLocally', signedOut)
    BY <2>1, <2>2, SetGrows DEF AccessInv
  <2> QED
    BY <1>2, <2>1, <2>2, <2>3, <2>4, StepInv DEF FallsBackGet, AccessInv, AccessOK
<1>3. CASE RedisAnswersSet
  <2>1. /\ link' = link /\ link = "redis" /\ tasks' = <<>> /\ wire # <<>> /\ Oldest.op = "set"
        /\ Oldest.token \in Tokens /\ Oldest.ttl \in Nat /\ wire' = Tail(wire)
    BY <1>3 DEF RedisAnswersSet, AccessInv, Calls
  <2>2. /\ redis' \in [Tokens -> Nat] /\ durable' \in SUBSET Tokens
        /\ signedOut' = signedOut \cup {Oldest.token} /\ signedOut' \in SUBSET Tokens
    BY <1>3, <2>1 DEF RedisAnswersSet, AccessInv, AccessOK
  <2>3. QueueOK(Tail(wire), revokedLocally, signedOut')
    BY <2>1, <2>2, TakenFromQueue DEF AccessInv, Oldest
  <2>4. QueueOK(<<>>, revokedLocally, signedOut')
    BY <2>3, EmptyQueue DEF QueueOK, SignOutsAreRemembered
  <2> QED
    BY <1>3, <2>1, <2>2, <2>3, <2>4, StepInv DEF RedisAnswersSet, AccessInv, AccessOK
<1>4. CASE FallsBackSet
  <2>1. /\ link' = link /\ link # "redis" /\ wire' = wire /\ tasks # <<>> /\ First.op = "set"
        /\ First.token \in Tokens /\ tasks' = Tail(tasks) /\ revokedLocally' = revokedLocally
    BY <1>4 DEF FallsBackSet, AccessInv, Calls
  <2>2. signedOut' = signedOut \cup {First.token} /\ signedOut' \in SUBSET Tokens
    BY <1>4, <2>1 DEF FallsBackSet, AccessInv, AccessOK
  <2>3. QueueOK(Tail(tasks), revokedLocally, signedOut')
    BY <2>1, <2>2, TakenFromQueue DEF AccessInv, First
  <2>4. QueueOK(wire, revokedLocally, signedOut')
    BY <2>1, <2>3, KeptQueue DEF AccessInv, QueueOK, SignOutsAreRemembered
  <2> QED
    BY <1>4, <2>1, <2>2, <2>3, <2>4, StepInv DEF FallsBackSet, AccessInv, AccessOK
<1> QED
  BY <1>1, <1>2, <1>3, <1>4 DEF CacheSettles

\* The connection, a peer, the clock and a rejected request leave the queues alone.
LEMMA OutsideInv ==
  ASSUME AccessInv, clock' \in Nat,
         UNCHANGED <<revokedLocally, wire, tasks, signedOut>>,
         \/ link' = link
         \/ link' \in {"redis", "memory", "down"} /\ link # "redis" /\ Settled,
         redis' \in [Tokens -> Nat],
         revokedKeys' \in SUBSET ApiKeys, durable' \in SUBSET Tokens
  PROVE  AccessInv'
  BY StepInv DEF AccessInv, AccessOK, Settled

\* Redis may have taken any of the open sign-outs when the connection is lost.
LEMMA LinkLostInv ==
  ASSUME AccessInv, clock' = clock, LinkLost
  PROVE  AccessInv'
<1>1. redis' \in [Tokens -> Nat]
  <2>1. PICK n \in 0 .. Len(wire) : redis' = [t \in Tokens |-> TakenBy(n, t)]
    BY DEF LinkLost
  <2>2. wire \in Seq(Calls) /\ redis \in [Tokens -> Nat] /\ clock \in Nat
    BY DEF AccessInv, AccessOK, Calls
  <2>3. ASSUME NEW t \in Tokens PROVE TakenBy(n, t) \in Nat
    <3> DEFINE sets(m) == {i \in m .. n : wire[i].op = "set" /\ wire[i].token = t}
               last == {i \in sets(1) : sets(i + 1) = {}}
    <3>1. last \subseteq 1 .. Len(wire)
      BY <2>2
    <3>2. \A i \in last : wire[i].ttl \in Nat
      <4>1. \A i \in 1 .. Len(wire) : wire[i] \in Calls
        BY <2>2
      <4>2. \A e \in Calls : e.ttl \in Nat
        BY DEF Calls
      <4> HIDE DEF last
      <4> QED
        BY <3>1, <4>1, <4>2
    <3>3. last # {} => (CHOOSE i \in last : TRUE) \in last
      OBVIOUS
    <3>4. TakenBy(n, t)
            = IF last = {} THEN redis[t] ELSE clock + wire[CHOOSE i \in last : TRUE].ttl
      BY DEF TakenBy
    <3> HIDE DEF last
    <3> QED
      BY <2>2, <3>2, <3>3, <3>4
  <2> QED
    BY <2>1, <2>3
<1>2. /\ link = "redis" /\ tasks' = <<>> /\ link' \in {"memory", "down"}
      /\ UNCHANGED <<revokedLocally, revokedKeys, signedOut, durable>>
      /\ wire' = [i \in DOMAIN wire |-> [wire[i] EXCEPT !.kept = TRUE]]
  BY DEF LinkLost, AccessInv
<1>3. QueueOK(wire', revokedLocally, signedOut) /\ \A i \in 1 .. Len(wire') : wire'[i].kept
  <2>1. wire \in Seq(Calls) /\ SignOutsAreRemembered(wire, revokedLocally, signedOut)
    BY DEF AccessInv, QueueOK
  <2>2. /\ Len(wire') = Len(wire) /\ wire' \in Seq(Calls)
        /\ \A i \in 1 .. Len(wire) :
             wire'[i].kept /\ wire'[i].op = wire[i].op /\ wire'[i].token = wire[i].token
    BY <1>2, <2>1, KeptFacts
  <2> QED
    BY <2>1, <2>2, KeptQueue DEF SignOutsAreRemembered
<1>4. QueueOK(tasks', revokedLocally, signedOut)
  BY <1>2, EmptyQueue DEF AccessInv, QueueOK, SignOutsAreRemembered
<1> QED
  BY <1>1, <1>2, <1>3, <1>4, StepInv DEF AccessInv, AccessOK

\* Giving up, the client fails what it has kept, or forgets it.
LEMMA LinkGivenUpInv ==
  ASSUME AccessInv, clock' = clock, LinkGivenUp
  PROVE  AccessInv'
<1>1. QueueOK(<<>>, revokedLocally, signedOut)
  BY EmptyQueue DEF AccessInv, QueueOK, SignOutsAreRemembered
<1> QED
  BY <1>1, StepInv DEF LinkGivenUp, AccessInv, AccessOK

\* Every step keeps the invariant.
LEMMA AccessNextInv ==
  ASSUME AccessInv, [AccessNext]_<<clock, accessVars>>
  PROVE  AccessInv'
<1> USE DEF accessVars
<1>1. CASE UNCHANGED <<clock, accessVars>>
  BY <1>1, OutsideInv, SMT DEF AccessInv, AccessOK
<1>2. CASE \E t \in Tokens, route \in Routes : Authenticate(t, route) /\ clock' = clock
  BY <1>2, AuthenticateInv
<1>3. CASE CacheSettles /\ clock' = clock
  BY <1>3, CacheSettlesInv
<1>4. CASE LinkLost /\ clock' = clock
  BY <1>4, LinkLostInv
<1>5. CASE LinkChanges /\ clock' = clock
  BY <1>5, OutsideInv, SMT DEF LinkChanges, AccessInv, AccessOK
<1>6. CASE \E t \in Tokens : PeerSignsOut(t) /\ clock' = clock
  <2>1. PICK t \in Tokens : PeerSignsOut(t)
    BY <1>6
  <2>2. Ttl(t) \in Nat
    BY AccessAssumption, <2>1 DEF Ttl, AccessInv
  <2> QED
    BY <1>6, <2>1, <2>2, OutsideInv, SMT DEF PeerSignsOut, AccessInv, AccessOK
<1>7. CASE \E k \in ApiKeys : (UseKey(k) \/ RevokeKey(k)) /\ clock' = clock
  BY <1>7, OutsideInv, SMT DEF UseKey, RevokeKey, AccessInv, AccessOK
<1>8. CASE Rejected /\ clock' = clock
  BY <1>8, OutsideInv, SMT DEF Rejected, AccessInv, AccessOK
<1>9. CASE AccessRestart /\ clock' = clock
  <2>1. QueueOK(<<>>, {}, {})
    BY EmptyQueue
  <2> QED
    BY <1>9, <2>1, StepInv DEF AccessRestart, AccessInv, AccessOK
<1>10. CASE TimePasses /\ Rejected
  BY <1>10, OutsideInv, SMT DEF TimePasses, Rejected, AccessInv, AccessOK
<1>11. CASE LinkGivenUp /\ clock' = clock
  BY <1>11, LinkGivenUpInv
<1> QED
  BY <1>1, <1>2, <1>3, <1>4, <1>5, <1>6, <1>7, <1>8, <1>9, <1>10, <1>11 DEF AccessNext

\* The invariant of authentication: types, the memory of sign-outs, and the order
\* in which requests and sign-outs wait for the cache (auth.js:24-42).
THEOREM AccessIsConsistent == AccessSpec => []AccessInv
<1>1. clock = 0 /\ AccessInit => AccessInv
  BY AccessInitInv
<1>2. AccessInv /\ [AccessNext]_<<clock, accessVars>> => AccessInv'
  BY AccessNextInv
<1> QED
  BY <1>1, <1>2, PTL DEF AccessSpec

\* A step that serves a credential serves one that is neither signed out nor
\* revoked, unless the question to the cache was kept.
LEMMA ServiceIsAllowed ==
  ASSUME AccessInv, AccessNext, served' # Nobody, ~served'.kept
  PROVE  served'.cred \notin signedOut \cup revokedKeys
<1> USE DEF Refuse
<1>1. ASSUME NEW call \in Calls, NEW via, Handle(call, via), call.op = "get",
             Asks(call) => call.token \notin signedOut
      PROVE  served'.cred \notin signedOut \cup revokedKeys
  <2>1. served'.cred = call.token /\ served'.kept = call.kept
    BY <1>1 DEF Handle
  <2>2. call.token \in Tokens /\ revokedKeys \subseteq ApiKeys
    BY DEF Calls, AccessInv, AccessOK
  <2> QED
    BY <1>1, <2>1, <2>2, AccessAssumption DEF Asks
<1>2. CASE RedisAnswersGet
  <2>1. Oldest \in Calls /\ Oldest.op = "get" /\ Handle(Oldest, "redis")
    BY <1>2, FirstIsCall DEF RedisAnswersGet
  <2>2. Asks(Oldest) => Oldest.token \notin signedOut
    BY <1>2, FirstIsCall DEF RedisAnswersGet, AccessInv, QueueOK, NobodyWaitsSignedOut
  <2> QED
    BY <1>1, <2>1, <2>2
<1>3. CASE FallsBackGet
  <2>1. First \in Calls /\ First.op = "get" /\ Handle(First, "fallback")
    BY <1>3, FirstIsCall DEF FallsBackGet
  <2>2. Asks(First) => First.token \notin signedOut
    BY <1>3, FirstIsCall DEF FallsBackGet, AccessInv, QueueOK, NobodyWaitsSignedOut
  <2> QED
    BY <1>1, <2>1, <2>2
<1>4. CASE \E k \in ApiKeys : UseKey(k)
  <2>1. PICK k \in ApiKeys : UseKey(k)
    BY <1>4
  <2>2. served'.cred = k /\ k \notin revokedKeys
    BY <2>1 DEF UseKey
  <2>3. signedOut \subseteq Tokens
    BY DEF AccessInv, AccessOK
  <2> QED
    BY <2>2, <2>3, AccessAssumption
<1> QED
  BY <1>2, <1>3, <1>4 DEF AccessNext, CacheSettles, RedisAnswersSet, FallsBackSet, Authenticate,
     LinkLost, LinkChanges, LinkGivenUp, PeerSignsOut, RevokeKey, Rejected, AccessRestart

\* For any tokens, keys and lives, and however the cache answers, fails, goes and
\* comes back: once a sign-out is answered, the process serves that token nowhere,
\* but to a request whose question to the cache was on a connection that broke
\* (auth.js:24-42, routes/index.js:117).
THEOREM SignOutHolds == AccessSpec => OnlyKeptCallsOutliveSignOut
<1>1. AccessInv /\ [AccessNext]_<<clock, accessVars>>
        => [(served' # Nobody /\ ~served'.kept)
              => served'.cred \notin signedOut \cup revokedKeys]_<<clock, accessVars>>
  BY ServiceIsAllowed
<1> QED
  BY <1>1, AccessIsConsistent, PTL DEF AccessSpec, OnlyKeptCallsOutliveSignOut

\* What Redis keeps, and what open sign-outs will make it keep, lasts as long as
\* the token.
Taken(kept) == \A t \in durable : Exp[t] <= kept[t]
LastsAsLong(q, now) ==
  \A i \in 1 .. Len(q) : q[i].op = "set" => Exp[q[i].token] <= now + q[i].ttl

DurableInv == AccessInv /\ Taken(redis) /\ LastsAsLong(wire, clock) /\ LastsAsLong(tasks, clock)

\* A queue is a sequence of calls.
LEMMA QueuesAreTyped ==
  ASSUME AccessInv PROVE wire \in Seq(Calls) /\ tasks \in Seq(Calls) /\ clock \in Nat
  BY DEF AccessInv, QueueOK

\* Taking a call keeps the promise of the others.
LEMMA TakenLasts ==
  ASSUME NEW q \in Seq(Calls), LastsAsLong(q, clock), q # <<>>
  PROVE  Tail(q) \in Seq(Calls) /\ LastsAsLong(Tail(q), clock)
<1>1. \A i \in 1 .. Len(Tail(q)) : Tail(q)[i] = q[i + 1] /\ i + 1 \in 1 .. Len(q)
  BY TailFacts, Zenon
<1> QED
  BY <1>1 DEF LastsAsLong

\* A call that joins, when it lasts long enough, keeps it.
LEMMA JoinLasts ==
  ASSUME NEW q \in Seq(Calls), NEW c \in Calls, LastsAsLong(q, clock),
         c.op = "set" => Exp[c.token] <= clock + c.ttl
  PROVE  LastsAsLong(Append(q, c), clock)
<1>1. /\ Len(q) \in Nat /\ Len(Append(q, c)) = Len(q) + 1
      /\ \A i \in 1 .. Len(q) : Append(q, c)[i] = q[i]
      /\ Append(q, c)[Len(q) + 1] = c
  BY AppendFacts
<1>2. \A i \in 1 .. Len(Append(q, c)) : i \in 1 .. Len(q) \/ i = Len(q) + 1
  BY <1>1
<1> QED
  BY <1>1, <1>2 DEF LastsAsLong

\* revokeToken() asks for at least the rest of the token's life.
LEMMA TtlLasts ==
  ASSUME NEW t \in Tokens, clock \in Nat
  PROVE  Ttl(t) \in Nat /\ Exp[t] <= clock + Ttl(t)
  BY AccessAssumption DEF Ttl

\* What the handler of the first call asks for lasts.
LEMMA FollowingLasts ==
  ASSUME NEW q \in Seq(Calls), LastsAsLong(q, clock), q # <<>>, clock \in Nat
  PROVE  LastsAsLong(Following(Head(q), Tail(q)), clock)
<1> DEFINE t == Head(q).token
           c == Set(t, Ttl(t))
<1>1. t \in Tokens
  <2>1. Head(q) \in Calls
    BY TailFacts
  <2> QED
    BY <2>1 DEF Calls
<1>2. c \in Calls /\ (c.op = "set" => Exp[c.token] <= clock + c.ttl)
  BY <1>1, TtlLasts DEF Set, Calls
<1>3. Tail(q) \in Seq(Calls) /\ LastsAsLong(Tail(q), clock)
  BY TakenLasts
<1> HIDE DEF c
<1>4. LastsAsLong(Append(Tail(q), c), clock)
  BY <1>2, <1>3, JoinLasts
<1> QED
  BY <1>3, <1>4 DEF Following, c

\* Time makes a promise last longer.
LEMMA LaterLasts ==
  ASSUME NEW q \in Seq(Calls), LastsAsLong(q, clock), clock \in Nat
  PROVE  LastsAsLong(q, clock + 1)
<1>1. \A i \in 1 .. Len(q) : q[i] \in Calls
  OBVIOUS
<1>2. \A c \in Calls : Exp[c.token] \in Nat /\ c.ttl \in Nat
  BY AccessAssumption DEF Calls
<1> QED
  BY <1>1, <1>2 DEF LastsAsLong

\* Every step keeps it.
LEMMA DurableNextInv ==
  ASSUME DurableInv, [AccessNext]_<<clock, accessVars>>
  PROVE  DurableInv'
<1>1. AccessInv'
  BY AccessNextInv DEF DurableInv
<1> SUFFICES /\ \A t \in durable' : Exp[t] <= redis'[t]
             /\ LastsAsLong(wire', clock') /\ LastsAsLong(tasks', clock')
  BY <1>1 DEF DurableInv, Taken, LastsAsLong
<1>2. /\ AccessInv /\ Taken(redis) /\ LastsAsLong(wire, clock) /\ LastsAsLong(tasks, clock)
      /\ \A t \in durable : Exp[t] <= redis[t]
      /\ wire \in Seq(Calls) /\ tasks \in Seq(Calls) /\ clock \in Nat
  BY QueuesAreTyped DEF DurableInv, Taken
<1>3. LastsAsLong(<<>>, clock')
  BY DEF LastsAsLong
<1> USE <1>2 DEF accessVars
<1>4. CASE UNCHANGED <<clock, redis, wire, tasks, durable>>
  BY <1>4
<1>5. CASE \E t \in Tokens, route \in Routes : Authenticate(t, route) /\ clock' = clock
  <2>1. PICK t \in Tokens, route \in Routes : Authenticate(t, route)
    BY <1>5
  <2> DEFINE c == Get(t, route)
  <2>2. c \in Calls /\ c.op = "get"
    BY DEF Get, Calls
  <2>3. /\ wire' = wire \/ wire' = Append(wire, c)
        /\ tasks' = tasks \/ tasks' = <<c>>
        /\ UNCHANGED <<redis, durable>>
    BY <2>1 DEF Authenticate
  <2> HIDE DEF c
  <2>4. LastsAsLong(Append(wire, c), clock) /\ LastsAsLong(<<c>>, clock)
    BY <2>2, JoinLasts DEF LastsAsLong
  <2> QED
    BY <1>5, <2>3, <2>4
<1>6. CASE RedisAnswersGet /\ clock' = clock
  BY <1>6, TakenLasts, FollowingLasts DEF RedisAnswersGet, Oldest
<1>7. CASE FallsBackGet /\ clock' = clock
  BY <1>7, FollowingLasts DEF FallsBackGet, First
<1>8. CASE RedisAnswersSet /\ clock' = clock
  <2>1. Oldest \in Calls /\ Oldest = wire[1] /\ 1 \in 1 .. Len(wire)
    BY <1>8, FirstIsCall DEF RedisAnswersSet
  <2>2. Oldest.token \in Tokens /\ Exp[Oldest.token] <= clock + Oldest.ttl
    BY <1>8, <2>1 DEF RedisAnswersSet, LastsAsLong, Calls
  <2>3. LastsAsLong(Tail(wire), clock)
    BY <1>8, TakenLasts DEF RedisAnswersSet
  <2>4. \A t \in durable' : Exp[t] <= redis'[t]
    BY <1>8, <2>2 DEF RedisAnswersSet, AccessInv, AccessOK
  <2> QED
    BY <1>8, <2>3, <2>4 DEF RedisAnswersSet
<1>9. CASE FallsBackSet /\ clock' = clock
  BY <1>9, TakenLasts DEF FallsBackSet
<1>10. CASE LinkLost /\ clock' = clock
  <2>1. PICK n \in 0 .. Len(wire) : redis' = [t \in Tokens |-> TakenBy(n, t)]
    BY <1>10 DEF LinkLost
  <2>2. ASSUME NEW t \in durable PROVE Exp[t] <= TakenBy(n, t)
    <3> DEFINE sets(m) == {i \in m .. n : wire[i].op = "set" /\ wire[i].token = t}
               last == {i \in sets(1) : sets(i + 1) = {}}
    <3>1. \A i \in last : Exp[t] <= clock + wire[i].ttl
      <4>1. last \subseteq {i \in 1 .. Len(wire) : wire[i].op = "set" /\ wire[i].token = t}
        OBVIOUS
      <4> HIDE DEF last
      <4> QED
        BY <4>1 DEF LastsAsLong
    <3>2. last # {} => (CHOOSE i \in last : TRUE) \in last
      OBVIOUS
    <3>3. TakenBy(n, t)
            = IF last = {} THEN redis[t] ELSE clock + wire[CHOOSE i \in last : TRUE].ttl
      BY DEF TakenBy
    <3>4. Exp[t] <= redis[t]
      OBVIOUS
    <3> HIDE DEF last
    <3> QED
      BY <3>1, <3>2, <3>3, <3>4
  <2>3. durable' = durable /\ durable \subseteq Tokens
    BY <1>10 DEF LinkLost, AccessInv, AccessOK
  <2>4. LastsAsLong(wire', clock)
    <3>1. wire' = [i \in DOMAIN wire |-> [wire[i] EXCEPT !.kept = TRUE]]
      BY <1>10 DEF LinkLost
    <3>2. /\ Len(wire') = Len(wire)
          /\ \A i \in 1 .. Len(wire) : /\ wire'[i].op = wire[i].op
                                      /\ wire'[i].token = wire[i].token /\ wire'[i].ttl = wire[i].ttl
      BY <3>1, KeptFacts
    <3> QED
      BY <3>2 DEF LastsAsLong
  <2> QED
    BY <1>10, <2>1, <2>2, <2>3, <2>4 DEF LinkLost
<1>11. CASE LinkGivenUp /\ clock' = clock
  BY <1>3, <1>11 DEF LinkGivenUp
<1>12. CASE \E t \in Tokens : PeerSignsOut(t) /\ clock' = clock
  <2>1. PICK t \in Tokens : PeerSignsOut(t)
    BY <1>12
  <2>2. Exp[t] <= clock + Ttl(t)
    BY TtlLasts
  <2> QED
    BY <1>12, <2>1, <2>2 DEF PeerSignsOut, AccessInv, AccessOK
<1>13. CASE AccessRestart /\ clock' = clock
  BY <1>3, <1>13 DEF AccessRestart
<1>14. CASE TimePasses /\ Rejected
  BY <1>14, LaterLasts DEF TimePasses, Rejected
<1> QED
  BY <1>4, <1>5, <1>6, <1>7, <1>8, <1>9, <1>10, <1>11, <1>12, <1>13, <1>14
  DEF AccessNext, CacheSettles, UseKey, RevokeKey, LinkChanges, Rejected

\* A sign-out that Redis has taken, whoever made it and before whatever restarts,
\* holds wherever Redis is asked, until the token expires (auth.js:18-30).
THEOREM DurableSignOut == AccessSpec => DurableSignOutHolds
<1>1. clock = 0 /\ AccessInit => DurableInv
  BY AccessInitInv DEF DurableInv, Taken, LastsAsLong, AccessInit
<1>2. DurableInv /\ [AccessNext]_<<clock, accessVars>> => DurableInv'
  BY DurableNextInv
<1>3. DurableInv /\ [AccessNext]_<<clock, accessVars>>
        => [(served'.via = "redis" /\ clock < Exp[served'.cred])
              => served'.cred \notin durable]_<<clock, accessVars>>
  <2> SUFFICES ASSUME DurableInv, AccessNext, served'.via = "redis",
                      clock < Exp[served'.cred], served'.cred \in durable
               PROVE  FALSE
    OBVIOUS
  <2>1. CASE RedisAnswersGet
    <3>1. Handle(Oldest, "redis") /\ ~(clock < redis[Oldest.token])
      BY <2>1 DEF RedisAnswersGet, Refuse, Nobody
    <3>2. served'.cred = Oldest.token /\ Oldest.token \in Tokens
      BY <2>1, <3>1, FirstIsCall DEF Handle, Refuse, Nobody, RedisAnswersGet, DurableInv, Calls
    <3>3. Exp[Oldest.token] <= redis[Oldest.token]
      BY <3>2 DEF DurableInv, Taken
    <3>4. clock \in Nat /\ redis[Oldest.token] \in Nat /\ Exp[Oldest.token] \in Nat
      BY <3>2, AccessAssumption DEF DurableInv, AccessInv, AccessOK
    <3> QED
      BY <3>1, <3>2, <3>3, <3>4
  <2>2. CASE FallsBackGet
    BY <2>2 DEF FallsBackGet, Handle, Refuse, Nobody
  <2> QED
    BY <2>1, <2>2 DEF AccessNext, CacheSettles, RedisAnswersSet, FallsBackSet,
       Authenticate, LinkLost, LinkChanges, LinkGivenUp, PeerSignsOut, UseKey, RevokeKey,
       Rejected, AccessRestart, Refuse, Nobody
<1> QED
  BY <1>1, <1>2, <1>3, PTL DEF AccessSpec, DurableSignOutHolds

-----------------------------------------------------------------------------
\* The store of the limiter

Counter == [count : Nat, resetAt : Nat, place : Nat]

\* What _enforceStoreCap() is called with: at most one counter too many.
Store(s, size) ==
  /\ IsFiniteSet(DOMAIN s) /\ Cardinality(DOMAIN s) <= size
  /\ \A k \in DOMAIN s :
       /\ s[k] \in Counter
       /\ s[k].resetAt <= clock + Window
       /\ s[k].place <= Cardinality(DOMAIN s)

StoreOK(s) == Store(s, MaxTrackedKeys)

\* t has some of the counters of s, as they are.
SameCounters(t, s) ==
  /\ DOMAIN t \subseteq DOMAIN s
  /\ \A k \in DOMAIN t : t[k].count = s[k].count /\ t[k].resetAt = s[k].resetAt

\* Among counters of any finite set one goes first.
LEMMA OneGoesFirst ==
  ASSUME NEW s, NEW ks, IsFiniteSet(ks), ks # {}, \A k \in ks : s[k] \in Counter
  PROVE  \E m \in ks : \A j \in ks : ~ Sooner(s, j, m)
<1> DEFINE Before(k) == {j \in ks : Sooner(s, j, k)}
           Befores == {Before(k) : k \in ks}
<1>1. IsWellFoundedOn(StrictSubsetOrdering(ks), FiniteSubsetsOf(ks))
  BY FS_StrictSubsetOrderingWellFounded
<1>2. Befores \subseteq FiniteSubsetsOf(ks) /\ Befores # {}
  <2>1. \A k \in ks : Before(k) \in SUBSET ks
    OBVIOUS
  <2>2. \A k \in ks : IsFiniteSet(Before(k))
    <3> HIDE DEF Before
    <3> QED BY <2>1, FS_Subset
  <2> QED BY <2>1, <2>2 DEF FiniteSubsetsOf
<1>3. PICK B \in Befores : \A C \in Befores : ~ (<<C, B>> \in StrictSubsetOrdering(ks))
  BY <1>1, <1>2, WFMin
<1>4. PICK m \in ks : B = Before(m)
  BY <1>3
<1>5. ASSUME NEW j \in ks, Sooner(s, j, m) PROVE FALSE
  <2>1. \A i \in ks : s[i].resetAt \in Nat /\ s[i].place \in Nat
    BY DEF Counter
  <2>2. \A i \in ks : Sooner(s, i, j) => Sooner(s, i, m)
    BY <1>5, <2>1 DEF Sooner
  <2>3. ~ Sooner(s, j, j)
    BY <2>1 DEF Sooner
  <2>4. <<Before(j), Before(m)>> \in StrictSubsetOrdering(ks)
    BY <1>5, <2>2, <2>3 DEF StrictSubsetOrdering
  <2> QED BY <1>3, <1>4, <2>4
<1> QED BY <1>5

LEMMA KeepFacts ==
  ASSUME NEW s, NEW size \in Nat, Store(s, size), NEW ks \in SUBSET DOMAIN s
  PROVE  /\ DOMAIN Keep(s, ks) = ks
         /\ SameCounters(Keep(s, ks), s)
         /\ Store(Keep(s, ks), Cardinality(ks))
<1> DEFINE place(k) == Cardinality({j \in ks : s[j].place <= s[k].place})
<1>1. IsFiniteSet(ks) /\ Cardinality(ks) \in Nat
  BY FS_Subset, FS_CardinalityType DEF Store
<1>2. \A k \in ks : place(k) \in Nat /\ place(k) <= Cardinality(ks)
  <2> SUFFICES ASSUME NEW k \in ks
               PROVE  place(k) \in Nat /\ place(k) <= Cardinality(ks)
    OBVIOUS
  <2> DEFINE T == {j \in ks : s[j].place <= s[k].place}
  <2>1. T \in SUBSET ks
    OBVIOUS
  <2> HIDE DEF T
  <2>2. IsFiniteSet(T) /\ Cardinality(T) <= Cardinality(ks) /\ Cardinality(T) \in Nat
    BY <1>1, <2>1, FS_Subset, FS_CardinalityType
  <2> QED BY <2>2 DEF T
<1>3. Keep(s, ks) = [k \in ks |-> [s[k] EXCEPT !.place = place(k)]]
  BY DEF Keep
<1>4. \A k \in ks : s[k] \in Counter /\ s[k].resetAt <= clock + Window
  BY DEF Store
<1> HIDE DEF place
<1>5. DOMAIN Keep(s, ks) = ks
  BY <1>3
<1>6. ASSUME NEW k \in ks
      PROVE  /\ Keep(s, ks)[k] \in Counter
             /\ Keep(s, ks)[k].count = s[k].count
             /\ Keep(s, ks)[k].resetAt = s[k].resetAt
             /\ Keep(s, ks)[k].place = place(k)
  BY <1>2, <1>3, <1>4 DEF Counter
<1>7. SameCounters(Keep(s, ks), s)
  BY <1>5, <1>6 DEF SameCounters
<1>8. Store(Keep(s, ks), Cardinality(ks))
  BY <1>1, <1>2, <1>4, <1>5, <1>6 DEF Store
<1> QED BY <1>5, <1>7, <1>8

\* _enforceStoreCap() leaves no more than the cap, and the counter that was just
\* made, which is the last to go: it expires last, and is the last inserted.
LEMMA EvictionFacts ==
  ASSUME NEW s, NEW k \in DOMAIN s, Store(s, MaxTrackedKeys + 1),
         s[k].resetAt = clock + Window, clock \in Nat,
         Cardinality(DOMAIN s) = MaxTrackedKeys + 1 =>
           \A j \in DOMAIN s \ {k} : s[j].place < s[k].place
  PROVE  /\ StoreOK(EnforceStoreCap(s)) /\ k \in DOMAIN EnforceStoreCap(s)
         /\ SameCounters(EnforceStoreCap(s), s)
<1>0. MaxTrackedKeys \in Nat \ {0} /\ Window \in Nat \ {0} /\ MaxTrackedKeys + 1 \in Nat
  BY RateLimiterAssumption
<1>1. IsFiniteSet(DOMAIN s) /\ Cardinality(DOMAIN s) \in Nat
  BY FS_CardinalityType DEF Store
<1>2. CASE Cardinality(DOMAIN s) <= MaxTrackedKeys
  BY <1>2 DEF EnforceStoreCap, StoreOK, Store, SameCounters
<1>3. CASE Cardinality(DOMAIN s) > MaxTrackedKeys
  <2> DEFINE ks == Unexpired(s)
             few == Kept(s)
  <2>1. Cardinality(DOMAIN s) = MaxTrackedKeys + 1
    BY <1>0, <1>1, <1>3 DEF Store
  <2>2. /\ ks \in SUBSET DOMAIN s /\ k \in ks
        /\ \A j \in ks : s[j] \in Counter
    BY <1>0 DEF Unexpired, Store
  <2>3. EnforceStoreCap(s) = Keep(s, few)
    BY <1>0, <1>1, <1>3 DEF EnforceStoreCap
  <2> HIDE DEF ks, few
  <2>4. /\ IsFiniteSet(ks) /\ Cardinality(ks) \in Nat
        /\ Cardinality(ks) <= MaxTrackedKeys + 1
    BY <1>0, <1>1, <2>1, <2>2, FS_Subset, FS_CardinalityType
  <2>5. few \in SUBSET DOMAIN s /\ k \in few /\ Cardinality(few) <= MaxTrackedKeys
    <3>1. CASE Cardinality(ks) <= MaxTrackedKeys
      <4>1. few = ks
        BY <3>1 DEF few, ks, Kept
      <4> QED BY <2>2, <3>1, <4>1
    <3>2. CASE Cardinality(ks) = MaxTrackedKeys + 1
      <4>1. few = SoonestFirst(s, ks)
        BY <1>0, <2>4, <3>2 DEF few, ks, Kept
      <4>2. ks = DOMAIN s
        BY <1>1, <2>1, <2>2, <3>2, FS_Subset
      <4> DEFINE Before(i) == {j \in ks : Sooner(s, j, i)}
      <4>3. few = {i \in ks : Cardinality(Before(i)) >= 1}
        <5>1. Cardinality(ks) - MaxTrackedKeys = 1
          BY <1>0, <3>2
        <5> QED BY <4>1, <5>1 DEF SoonestFirst
      <4>4. \A i \in ks : Before(i) \in SUBSET ks
        OBVIOUS
      <4>5. PICK m \in ks : Before(m) = {}
        BY <2>2, <2>4, OneGoesFirst
      <4>6. Before(k) # {}
        <5>1. ks # {k}
          <6>1. Cardinality({k}) = 1
            BY FS_Singleton
          <6> QED BY <1>0, <3>2, <6>1
        <5>2. PICK j \in ks : j # k
          BY <2>2, <5>1
        <5>3. s[j].resetAt <= s[k].resetAt /\ s[j].place < s[k].place
          BY <2>1, <4>2, <5>2 DEF Store
        <5>4. s[j].resetAt \in Nat /\ s[k].resetAt \in Nat
          BY <2>2 DEF Counter
        <5> QED BY <5>3, <5>4 DEF Sooner
      <4> HIDE DEF Before
      <4>7. \A i \in ks : /\ IsFiniteSet(Before(i)) /\ Cardinality(Before(i)) \in Nat
                          /\ Cardinality(Before(i)) = 0 <=> Before(i) = {}
        BY <2>4, <4>4, FS_Subset, FS_CardinalityType, FS_EmptySet
      <4>8. m \notin few /\ k \in few
        BY <2>2, <4>3, <4>5, <4>6, <4>7
      <4>9. few \in SUBSET (ks \ {m})
        BY <4>3, <4>8
      <4>10. IsFiniteSet(ks \ {m}) /\ Cardinality(ks \ {m}) = MaxTrackedKeys
        <5>1. IsFiniteSet(ks \ {m}) /\ Cardinality(ks \ {m}) = Cardinality(ks) - 1
          BY <2>4, <4>5, FS_RemoveElement
        <5> QED BY <1>0, <3>2, <5>1
      <4>11. Cardinality(few) <= MaxTrackedKeys
        BY <4>9, <4>10, FS_Subset
      <4> QED BY <2>2, <4>8, <4>9, <4>11
    <3> QED BY <1>0, <2>4, <3>1, <3>2
  <2>6. /\ DOMAIN Keep(s, few) = few /\ SameCounters(Keep(s, few), s)
        /\ Store(Keep(s, few), Cardinality(few))
    BY <1>0, <2>5, KeepFacts
  <2>7. Cardinality(few) \in Nat
    BY <1>1, <2>5, FS_Subset, FS_CardinalityType
  <2>8. StoreOK(Keep(s, few))
    BY <1>0, <2>5, <2>6, <2>7 DEF StoreOK, Store
  <2> QED BY <2>3, <2>5, <2>6, <2>8
<1> QED BY <1>0, <1>1, <1>2, <1>3

\* What one request does to the store: its own counter goes up, in the window
\* that is open or in a new one; of the others some may be gone.
LEMMA CountedFacts ==
  ASSUME NEW s, StoreOK(s), NEW k, clock \in Nat
  PROVE  /\ StoreOK(Counted(s, k))
         /\ DOMAIN Counted(s, k) \subseteq DOMAIN s \cup {k}
         /\ k \in DOMAIN Counted(s, k)
         /\ Counted(s, k)[k].count = CountAt(s, k)
         /\ Counted(s, k)[k].resetAt = IF Over(s, k) THEN clock + Window ELSE s[k].resetAt
         /\ \A j \in DOMAIN Counted(s, k) \ {k} :
              /\ Counted(s, k)[j].count = s[j].count
              /\ Counted(s, k)[j].resetAt = s[j].resetAt
<1> DEFINE t == IF Over(s, k) THEN Opened(s, k) ELSE s
           r == Reset(s, k)
<1>0. MaxTrackedKeys \in Nat \ {0} /\ Window \in Nat \ {0}
  BY RateLimiterAssumption
<1>1. IsFiniteSet(DOMAIN s) /\ Cardinality(DOMAIN s) \in Nat /\ Cardinality(DOMAIN s) <= MaxTrackedKeys
  BY FS_CardinalityType DEF StoreOK, Store
<1>2. Counted(s, k) = [j \in DOMAIN t |-> IF j = k THEN [t[j] EXCEPT !.count = @ + 1] ELSE t[j]]
  BY DEF Counted
<1>3. /\ StoreOK(t) /\ k \in DOMAIN t /\ DOMAIN t \subseteq DOMAIN s \cup {k}
      /\ t[k].count + 1 = CountAt(s, k)
      /\ t[k].resetAt = IF Over(s, k) THEN clock + Window ELSE s[k].resetAt
      /\ \A j \in DOMAIN t \ {k} : t[j].count = s[j].count /\ t[j].resetAt = s[j].resetAt
  <2>1. CASE ~ Over(s, k)
    BY <2>1 DEF Over, CountAt
  <2>2. CASE Over(s, k)
    <3>1. t = EnforceStoreCap(r)
      BY <2>2 DEF Opened
    <3>2. /\ DOMAIN r = DOMAIN s \cup {k} /\ r[k].count = 0 /\ r[k].resetAt = clock + Window
          /\ \A j \in DOMAIN s \ {k} : r[j] = s[j]
          /\ r[k].place = IF k \in DOMAIN s THEN s[k].place ELSE Cardinality(DOMAIN s) + 1
          /\ r[k] = [count |-> 0, resetAt |-> clock + Window, place |-> r[k].place]
      BY DEF Reset
    <3> HIDE DEF r, t
    <3>3. /\ IsFiniteSet(DOMAIN r)
          /\ Cardinality(DOMAIN r) = IF k \in DOMAIN s THEN Cardinality(DOMAIN s)
                                     ELSE Cardinality(DOMAIN s) + 1
      BY <1>1, <3>2, FS_AddElement
    <3>4. r[k].place \in Nat /\ r[k].place <= Cardinality(DOMAIN r)
      BY <1>1, <3>2, <3>3 DEF StoreOK, Store, Counter
    <3>5. \A j \in DOMAIN s : /\ s[j] \in Counter /\ s[j].resetAt <= clock + Window
                              /\ s[j].place <= Cardinality(DOMAIN s) /\ s[j].place \in Nat
      BY DEF StoreOK, Store, Counter
    <3>6. r[k] \in Counter
      BY <1>0, <3>2, <3>4 DEF Counter
    <3>7. ASSUME NEW j \in DOMAIN r, j # k
          PROVE  /\ r[j] \in Counter /\ r[j].resetAt <= clock + Window
                 /\ r[j].place <= Cardinality(DOMAIN r)
                 /\ k \notin DOMAIN s => r[j].place < r[k].place
      <4>1. j \in DOMAIN s /\ r[j] = s[j]
        BY <3>2, <3>7
      <4> QED BY <1>1, <3>2, <3>3, <3>5, <4>1
    <3>8. Store(r, MaxTrackedKeys + 1)
      <4>1. Cardinality(DOMAIN r) <= MaxTrackedKeys + 1
        BY <1>0, <1>1, <3>3
      <4>2. r[k].resetAt <= clock + Window
        BY <1>0, <3>2
      <4> QED BY <3>3, <3>4, <3>6, <3>7, <4>1, <4>2 DEF Store
    <3>9. Cardinality(DOMAIN r) = MaxTrackedKeys + 1 => k \notin DOMAIN s
      BY <1>0, <1>1, <3>3
    <3>10. StoreOK(t) /\ k \in DOMAIN t /\ SameCounters(t, r)
      BY <3>1, <3>2, <3>7, <3>8, <3>9, EvictionFacts
    <3>11. CountAt(s, k) = 1
      BY <2>2 DEF CountAt
    <3>12. t[k].count = 0 /\ t[k].resetAt = clock + Window
      BY <3>2, <3>10 DEF SameCounters
    <3>13. ASSUME NEW j \in DOMAIN t \ {k}
           PROVE  t[j].count = s[j].count /\ t[j].resetAt = s[j].resetAt
      <4>1. j \in DOMAIN s \ {k}
        BY <3>2, <3>10 DEF SameCounters
      <4> QED BY <3>2, <3>10, <4>1 DEF SameCounters
    <3>14. DOMAIN t \subseteq DOMAIN s \cup {k}
      BY <3>2, <3>10 DEF SameCounters
    <3> QED BY <2>2, <3>10, <3>11, <3>12, <3>13, <3>14
  <2> HIDE DEF t
  <2> QED BY <2>1, <2>2
<1> DEFINE u == Counted(s, k)
<1> HIDE DEF t
<1>4. \A j \in DOMAIN t : t[j] \in Counter
  BY <1>3 DEF StoreOK, Store
<1>5. /\ DOMAIN u = DOMAIN t
      /\ \A j \in DOMAIN t \ {k} : u[j] = t[j]
      /\ u[k] = [t[k] EXCEPT !.count = @ + 1]
  BY <1>2, <1>3
<1>6. /\ u[k] \in Counter /\ u[k].count = t[k].count + 1
      /\ u[k].resetAt = t[k].resetAt /\ u[k].place = t[k].place
  BY <1>3, <1>4, <1>5 DEF Counter
<1> HIDE DEF u
<1>7. StoreOK(u)
  BY <1>3, <1>5, <1>6 DEF StoreOK, Store
<1>8. \A j \in DOMAIN u \ {k} : u[j].count = s[j].count /\ u[j].resetAt = s[j].resetAt
  BY <1>3, <1>5
<1> QED BY <1>3, <1>5, <1>6, <1>7, <1>8 DEF u

-----------------------------------------------------------------------------
\* What a counter knows of the history

Histories == [Ages -> Nat]
Once(h) == [a \in Ages |-> h[a] + 1]
StartOf(s, k) == clock + Window - s[k].resetAt

\* A client without a window has not been let in during this tick, and less than a
\* budget of times in the last window's length.  In a window that began b ticks
\* ago it was let in at most as often as counted, and no more than the budget; and
\* either the first request of the window was let in, which will be out of sight
\* when the window ends, or something is left of the budget.
Watched(s, k, a, g, max) ==
  /\ \A i, j \in Ages : i <= j => g[i] <= g[j]
  /\ Over(s, k) => a[0] = 0 /\ g[0] = 0 /\ g[Window - 1] < max
  /\ ~ Over(s, k) =>
       LET b == StartOf(s, k) n == s[k].count IN
       /\ n = a[b] /\ g[b] <= n /\ g[b] <= max
       /\ \A i \in Ages : g[i] < g[b] + max
       /\ \/ g[b] >= 1 /\ \A i \in Ages : i < b => g[i] < g[b]
          \/ g[b] < n /\ g[b] < max

LEMMA StartIsAnAge ==
  ASSUME NEW s, StoreOK(s), NEW k, ~ Over(s, k), clock \in Nat
  PROVE  StartOf(s, k) \in Ages /\ s[k].count \in Nat
<1>1. s[k].resetAt \in Nat /\ s[k].resetAt <= clock + Window /\ clock < s[k].resetAt
  BY DEF StoreOK, Store, Over, Counter
<1>2. Window \in Nat
  BY RateLimiterAssumption
<1> QED BY <1>1, <1>2 DEF StartOf, Ages, StoreOK, Store, Over, Counter

\* A request of another client or limiter leaves what a counter knows as it is,
\* unless it evicts the counter.
LEMMA OthersAreWatched ==
  ASSUME NEW s, StoreOK(s), NEW k, clock \in Nat, NEW j, j # k,
         j \notin Evicted(s, Counted(s, k)),
         NEW a, NEW g, NEW max, Watched(s, j, a, g, max)
  PROVE  Watched(Counted(s, k), j, a, g, max)
<1> DEFINE t == Counted(s, k)
<1>1. /\ DOMAIN t \subseteq DOMAIN s \cup {k}
      /\ j \in DOMAIN t => t[j].count = s[j].count /\ t[j].resetAt = s[j].resetAt
  BY CountedFacts
<1>2. j \notin Evicted(s, t)
  OBVIOUS
<1>3. \A i \in DOMAIN s : s[i].resetAt \in Nat
  BY DEF StoreOK, Store, Counter
<1> HIDE DEF t
<1>4. Over(t, j) = Over(s, j)
  BY <1>1, <1>2, <1>3 DEF Over, Evicted
<1>5. ~ Over(t, j) => StartOf(t, j) = StartOf(s, j) /\ t[j].count = s[j].count
  BY <1>1 DEF Over, StartOf
<1>6. Watched(t, j, a, g, max)
  BY <1>4, <1>5, Zenon DEF Watched
<1> QED BY <1>6 DEF t

\* Its own request is counted, and let in within the budget.
LEMMA OwnIsWatched ==
  ASSUME NEW s, StoreOK(s), NEW k, clock \in Nat,
         NEW a \in Histories, NEW g \in Histories,
         NEW max \in Nat \ {0}, Budget(max) \in Nat, Budget(max) <= max,
         Watched(s, k, a, g, max)
  PROVE  Watched(Counted(s, k), k, Once(a), IF Admits(s, k, max) THEN Once(g) ELSE g, max)
<1> DEFINE t == Counted(s, k)
           h == IF Admits(s, k, max) THEN Once(g) ELSE g
<1>0. Window \in Nat \ {0} /\ Ages = 0 .. Window - 1 /\ 0 \in Ages /\ Window - 1 \in Ages
  BY RateLimiterAssumption DEF Ages
<1>1. /\ k \in DOMAIN t /\ t[k].count = CountAt(s, k)
      /\ t[k].resetAt = IF Over(s, k) THEN clock + Window ELSE s[k].resetAt
  BY CountedFacts
<1>2. /\ \A i \in Ages : a[i] \in Nat /\ g[i] \in Nat /\ Once(a)[i] = a[i] + 1
      /\ \A i \in Ages : h[i] = IF Admits(s, k, max) THEN g[i] + 1 ELSE g[i]
      /\ Admits(s, k, max) <=> CountAt(s, k) <= Budget(max)
  BY DEF Histories, Once, Admits
<1> SUFFICES Watched(t, k, Once(a), h, max)
  OBVIOUS
<1> HIDE DEF t, h
<1>3. \A i, j \in Ages : i <= j => h[i] <= h[j]
  <2>1. \A i, j \in Ages : i <= j => g[i] <= g[j]
    BY DEF Watched
  <2> QED BY <1>2, <2>1
<1>4. CASE Over(s, k)
  <2>1. ~ Over(t, k) /\ StartOf(t, k) = 0 /\ t[k].count = 1
    BY <1>0, <1>1, <1>4 DEF Over, StartOf, CountAt
  <2>2. a[0] = 0 /\ g[0] = 0 /\ g[Window - 1] < max
    BY <1>4 DEF Watched
  <2>3. \A i \in Ages : g[i] < max
    <3>1. \A i \in Ages : g[i] <= g[Window - 1]
      BY <1>0 DEF Watched
    <3> QED BY <1>0, <1>2, <2>2, <3>1
  <2>4. CASE Admits(s, k, max)
    <3>1. h[0] = 1 /\ Once(a)[0] = 1 /\ \A i \in Ages : h[i] < 1 + max
      BY <1>0, <1>2, <2>2, <2>3, <2>4
    <3>2. \A i \in Ages : ~ (i < 0)
      BY <1>0
    <3>3. 1 <= max /\ h[0] <= 1 /\ h[0] >= 1
      BY <3>1
    <3> QED BY <1>3, <2>1, <3>1, <3>2, <3>3 DEF Watched
  <2>5. CASE ~ Admits(s, k, max)
    <3>1. h[0] = 0 /\ Once(a)[0] = 1 /\ \A i \in Ages : h[i] < 0 + max
      BY <1>0, <1>2, <2>2, <2>3, <2>5
    <3>2. h[0] < 1 /\ h[0] < max /\ h[0] <= max /\ h[0] <= 1
      BY <3>1
    <3> QED BY <1>3, <2>1, <3>1, <3>2 DEF Watched
  <2> QED BY <2>4, <2>5
<1>5. CASE ~ Over(s, k)
  <2> DEFINE b == StartOf(s, k)
             n == s[k].count
  <2>1. ~ Over(t, k) /\ StartOf(t, k) = b /\ t[k].count = n + 1 /\ CountAt(s, k) = n + 1
    BY <1>1, <1>5 DEF Over, StartOf, CountAt
  <2>2. b \in Ages /\ n \in Nat
    BY <1>5, StartIsAnAge
  <2>3. /\ n = a[b] /\ g[b] <= n /\ g[b] <= max
        /\ \A i \in Ages : g[i] < g[b] + max
        /\ \/ g[b] >= 1 /\ \A i \in Ages : i < b => g[i] < g[b]
           \/ g[b] < n /\ g[b] < max
    BY <1>5 DEF Watched
  <2> HIDE DEF b, n
  <2>4. /\ n + 1 = Once(a)[b] /\ h[b] <= n + 1
        /\ \A i \in Ages : h[i] < h[b] + max
    BY <1>2, <2>2, <2>3
  <2>5. /\ h[b] <= max
        /\ \/ h[b] >= 1 /\ \A i \in Ages : i < b => h[i] < h[b]
           \/ h[b] < n + 1 /\ h[b] < max
    <3>1. CASE Admits(s, k, max)
      <4>1. n + 1 <= max
        BY <1>2, <2>1, <2>2, <3>1
      <4>2. h[b] = g[b] + 1 /\ \A i \in Ages : h[i] = g[i] + 1
        BY <1>2, <2>2, <3>1
      <4> QED BY <1>2, <2>2, <2>3, <4>1, <4>2
    <3>2. CASE ~ Admits(s, k, max)
      <4>1. \A i \in Ages : h[i] = g[i]
        BY <1>2, <3>2
      <4> QED BY <1>2, <2>2, <2>3, <4>1
    <3> QED BY <3>1, <3>2
  <2> QED BY <1>3, <2>1, <2>4, <2>5 DEF Watched
<1> QED BY <1>4, <1>5

-----------------------------------------------------------------------------
\* The invariant of the limiter

MaxOf(k) == IF k[2] = "" THEN TierMax["free"] ELSE ChallengeMax

LimiterInv ==
  /\ clock \in Nat /\ StoreOK(counters) /\ DOMAIN counters \subseteq Keys
  /\ config.rateLimitPerMinute \in Nat \cup {NoCeiling}
  /\ asked \in [Keys -> Histories] /\ granted \in [Keys -> Histories]
  /\ \A k \in Keys \ forgotten : Watched(counters, k, asked[k], granted[k], MaxOf(k))

LEMMA BudgetFacts ==
  ASSUME config.rateLimitPerMinute \in Nat \cup {NoCeiling}, NEW max \in Nat
  PROVE  Budget(max) \in Nat /\ Budget(max) <= max
<1>1. CASE config.rateLimitPerMinute = NoCeiling
  BY <1>1 DEF Budget
<1>2. CASE config.rateLimitPerMinute # NoCeiling
  <2> DEFINE S == {max, config.rateLimitPerMinute}
  <2>1. S \subseteq Nat /\ max \in S
    BY <1>2
  <2>2. \E x \in S : \A y \in S : x <= y
    BY <1>2
  <2>3. Min(S) \in S /\ \A y \in S : Min(S) <= y
    BY <2>2 DEF Min
  <2> QED BY <1>2, <2>1, <2>3 DEF Budget
<1> QED BY <1>1, <1>2

LEMMA KeyFacts ==
  ASSUME NEW ip \in Ips
  PROVE  /\ TierKey(ip) = Own("", ip) /\ ChallengeKey(ip) = Own("authchallenge", ip)
         /\ TierKey(ip) \in Keys /\ ChallengeKey(ip) \in Keys
         /\ TierKey(ip) # ChallengeKey(ip)
         /\ TierMax[Tier(Anonymous)] = MaxOf(TierKey(ip))
         /\ ChallengeMax = MaxOf(ChallengeKey(ip))
<1>1. Tier(Anonymous) = "free"
  BY DEF Tier, Anonymous
<1> QED BY <1>1 DEF TierKey, ChallengeKey, Key, Own, Keys, Limiters, MaxOf

LEMMA MaxFacts == \A k : MaxOf(k) \in Nat \ {0}
<1>1. TierMax["free"] \in Nat \ {0} /\ ChallengeMax \in Nat \ {0}
  BY RateLimiterAssumption
<1> QED BY <1>1 DEF MaxOf

LEMMA NotedFacts ==
  ASSUME NEW h \in [Keys -> Histories], NEW ks
  PROVE  /\ Noted(h, ks) \in [Keys -> Histories]
         /\ \A k \in Keys : Noted(h, ks)[k] = IF k \in ks THEN Once(h[k]) ELSE h[k]
<1>1. ASSUME NEW k \in Keys
      PROVE  /\ Noted(h, ks)[k] = IF k \in ks THEN Once(h[k]) ELSE h[k]
             /\ Noted(h, ks)[k] \in Histories
  <2>1. h[k] \in [Ages -> Nat]
    BY DEF Histories
  <2>2. Noted(h, ks)[k] = [a \in Ages |-> IF k \in ks THEN h[k][a] + 1 ELSE h[k][a]]
    BY DEF Noted
  <2>3. CASE k \in ks
    BY <2>1, <2>2, <2>3 DEF Once, Histories
  <2>4. CASE k \notin ks
    <3>1. Noted(h, ks)[k] = [a \in Ages |-> h[k][a]]
      BY <2>2, <2>4
    <3> QED BY <2>1, <2>4, <3>1 DEF Histories
  <2> QED BY <2>3, <2>4
<1>2. Noted(h, ks) = [k \in Keys |-> Noted(h, ks)[k]]
  BY DEF Noted
<1> QED BY <1>1, <1>2

\* One limiter on the way: its key and all others, over any store.
LEMMA OneLimiter ==
  ASSUME LimiterInv, NEW s, StoreOK(s), NEW k \in Keys, NEW max, max = MaxOf(k),
         NEW j \in Keys, j \notin Evicted(s, Counted(s, k)),
         Watched(s, j, asked[j], granted[j], MaxOf(j))
  PROVE  Watched(Counted(s, k), j,
                 IF j = k THEN Once(asked[j]) ELSE asked[j],
                 IF j = k /\ Admits(s, k, max) THEN Once(granted[j]) ELSE granted[j],
                 MaxOf(j))
<1>1. clock \in Nat /\ asked[j] \in Histories /\ granted[j] \in Histories
  BY DEF LimiterInv
<1>2. CASE j # k
  BY <1>1, <1>2, OthersAreWatched
<1>3. CASE j = k
  <2>1. max \in Nat \ {0}
    BY MaxFacts
  <2>2. Budget(max) \in Nat /\ Budget(max) <= max
    BY <2>1, BudgetFacts DEF LimiterInv
  <2> QED BY <1>1, <1>3, <2>1, <2>2, OwnIsWatched
<1> QED BY <1>2, <1>3

LEMMA LimitKeeps ==
  ASSUME LimiterInv, NEW ip \in Ips, Limit(ip), UNCHANGED <<clock, config>>
  PROVE  LimiterInv'
<1> DEFINE k == TierKey(ip)
           s == Counted(counters, k)
           max == TierMax[Tier(Anonymous)]
           passed == IF PassesTier(ip) THEN {k} ELSE {}
<1>1. k \in Keys /\ k = Own("", ip) /\ max = MaxOf(k)
  BY KeyFacts
<1>2. /\ counters' = s /\ asked' = Noted(asked, {k}) /\ granted' = Noted(granted, passed)
      /\ forgotten' = forgotten \cup Evicted(counters, s)
      /\ PassesTier(ip) <=> Admits(counters, k, max)
  BY <1>1 DEF Limit, Record, PassesTier
<1>3. StoreOK(s) /\ DOMAIN s \subseteq DOMAIN counters \cup {k}
  BY CountedFacts DEF LimiterInv
<1> HIDE DEF k, s, max, passed
<1>4. asked' \in [Keys -> Histories] /\ granted' \in [Keys -> Histories]
  BY <1>2, NotedFacts DEF LimiterInv
<1>5. ASSUME NEW j \in Keys \ forgotten'
      PROVE  Watched(counters', j, asked'[j], granted'[j], MaxOf(j))
  <2>1. j \notin forgotten /\ j \notin Evicted(counters, s)
    BY <1>2, <1>5
  <2>2. Watched(counters, j, asked[j], granted[j], MaxOf(j))
    BY <2>1 DEF LimiterInv
  <2>3. Watched(s, j, IF j = k THEN Once(asked[j]) ELSE asked[j],
                IF j = k /\ Admits(counters, k, max) THEN Once(granted[j]) ELSE granted[j],
                MaxOf(j))
    BY <1>1, <2>1, <2>2, OneLimiter DEF LimiterInv, s
  <2>4. /\ asked'[j] = IF j = k THEN Once(asked[j]) ELSE asked[j]
        /\ granted'[j] = IF j \in passed THEN Once(granted[j]) ELSE granted[j]
    BY <1>2, NotedFacts DEF LimiterInv
  <2>5. j \in passed <=> j = k /\ Admits(counters, k, max)
    BY <1>2 DEF passed
  <2> QED BY <1>2, <2>3, <2>4, <2>5
<1>6. clock' = clock /\ config' = config
  OBVIOUS
<1>7. StoreOK(counters)'
  BY <1>2, <1>3, <1>6 DEF StoreOK, Store
<1>8. \A j \in Keys \ forgotten' : Watched(counters, j, asked[j], granted[j], MaxOf(j))'
  BY <1>5, <1>6 DEF Watched, Over, StartOf, MaxOf
<1> QED BY <1>1, <1>2, <1>3, <1>4, <1>6, <1>7, <1>8 DEF LimiterInv

\* A challenge passes two limiters, over one store.
LEMMA LimitChallengeKeeps ==
  ASSUME LimiterInv, NEW ip \in Ips, LimitChallenge(ip), UNCHANGED <<clock, config>>
  PROVE  LimiterInv'
<1> DEFINE k == TierKey(ip)
           l == ChallengeKey(ip)
           s == Counted(counters, k)
           t == Counted(s, l)
           max == TierMax[Tier(Anonymous)]
           passed == IF PassesChallenge(ip) THEN {k, l} ELSE {k}
<1>1. /\ k \in Keys /\ k = Own("", ip) /\ max = MaxOf(k) /\ k # l
      /\ l \in Keys /\ l = Own("authchallenge", ip) /\ ChallengeMax = MaxOf(l)
  BY KeyFacts
<1>2. CASE Limit(ip)
  BY <1>2, LimitKeeps
<1>3. CASE ~ Limit(ip)
  <2>1. /\ counters' = t /\ asked' = Noted(asked, {k, l}) /\ granted' = Noted(granted, passed)
        /\ forgotten' = forgotten \cup Evicted(counters, s) \cup Evicted(s, t)
        /\ Admits(counters, k, max)
        /\ PassesChallenge(ip) <=> Admits(s, l, ChallengeMax)
    BY <1>1, <1>3 DEF LimitChallenge, Record, PassesTier, PassesChallenge
  <2>2. StoreOK(s) /\ DOMAIN s \subseteq DOMAIN counters \cup {k}
    BY CountedFacts DEF LimiterInv
  <2> HIDE DEF s
  <2>3. StoreOK(t) /\ DOMAIN t \subseteq DOMAIN s \cup {l}
    BY <2>2, CountedFacts DEF LimiterInv
  <2> HIDE DEF k, l, t, max, passed
  <2>4. asked' \in [Keys -> Histories] /\ granted' \in [Keys -> Histories]
    BY <2>1, NotedFacts DEF LimiterInv
  <2>5. ASSUME NEW j \in Keys \ forgotten'
        PROVE  Watched(counters', j, asked'[j], granted'[j], MaxOf(j))
    <3>1. j \notin forgotten /\ j \notin Evicted(counters, s) /\ j \notin Evicted(s, t)
      BY <2>1, <2>5
    <3>2. Watched(counters, j, asked[j], granted[j], MaxOf(j))
      BY <3>1 DEF LimiterInv
    <3>3. Watched(s, j, IF j = k THEN Once(asked[j]) ELSE asked[j],
                  IF j = k THEN Once(granted[j]) ELSE granted[j], MaxOf(j))
      <4>1. Watched(s, j, IF j = k THEN Once(asked[j]) ELSE asked[j],
                    IF j = k /\ Admits(counters, k, max) THEN Once(granted[j]) ELSE granted[j],
                    MaxOf(j))
        BY <1>1, <3>1, <3>2, OneLimiter DEF LimiterInv, s
      <4> QED BY <2>1, <4>1
    <3>4. /\ asked'[j] = IF j \in {k, l} THEN Once(asked[j]) ELSE asked[j]
          /\ granted'[j] = IF j \in passed THEN Once(granted[j]) ELSE granted[j]
      BY <2>1, NotedFacts DEF LimiterInv
    <3>5. clock \in Nat /\ Evicted(s, t) = Evicted(s, Counted(s, l))
      BY DEF LimiterInv, t
    <3>6. CASE j = k
      <4>1. Watched(t, j, Once(asked[j]), Once(granted[j]), MaxOf(j))
        BY <1>1, <2>2, <3>1, <3>3, <3>5, <3>6, OthersAreWatched DEF t
      <4>2. asked'[j] = Once(asked[j]) /\ granted'[j] = Once(granted[j])
        BY <3>4, <3>6 DEF passed
      <4> QED BY <2>1, <4>1, <4>2
    <3>7. CASE j # k
      <4>1. Watched(s, j, asked[j], granted[j], MaxOf(j))
        BY <3>3, <3>7
      <4>2. Watched(t, j, IF j = l THEN Once(asked[j]) ELSE asked[j],
                    IF j = l /\ Admits(s, l, ChallengeMax) THEN Once(granted[j]) ELSE granted[j],
                    MaxOf(j))
        BY <1>1, <2>2, <3>1, <3>5, <4>1, OneLimiter DEF t
      <4>3. j \in passed <=> j = l /\ Admits(s, l, ChallengeMax)
        BY <2>1, <3>7, <1>1 DEF passed
      <4>4. asked'[j] = IF j = l THEN Once(asked[j]) ELSE asked[j]
        BY <3>4, <3>7
      <4>5. granted'[j] = IF j = l /\ Admits(s, l, ChallengeMax)
                          THEN Once(granted[j]) ELSE granted[j]
        BY <3>4, <4>3
      <4> QED BY <2>1, <4>2, <4>4, <4>5
    <3> QED BY <3>6, <3>7
  <2>6. clock' = clock /\ config' = config
    OBVIOUS
  <2>7. StoreOK(counters)'
    BY <2>1, <2>3, <2>6 DEF StoreOK, Store
  <2>8. \A j \in Keys \ forgotten' : Watched(counters, j, asked[j], granted[j], MaxOf(j))'
    BY <2>5, <2>6 DEF Watched, Over, StartOf, MaxOf
  <2>9. DOMAIN counters' \subseteq Keys
    BY <1>1, <2>1, <2>2, <2>3 DEF LimiterInv
  <2> QED BY <2>4, <2>6, <2>7, <2>8, <2>9 DEF LimiterInv
<1> QED BY <1>2, <1>3

LEMMA AgedFacts ==
  ASSUME NEW h \in [Keys -> Histories]
  PROVE  /\ Aged(h) \in [Keys -> Histories]
         /\ \A k \in Keys : \A a \in Ages : Aged(h)[k][a] = IF a = 0 THEN 0 ELSE h[k][a - 1]
<1>1. \A k \in Keys, a \in Ages \ {0} : h[k][a - 1] \in Nat
  BY RateLimiterAssumption DEF Histories, Ages
<1> QED BY <1>1 DEF Aged, Histories

\* With time a window gets older and ends: the requests of its first tick go out
\* of sight as it does.
LEMMA TickKeeps ==
  ASSUME LimiterInv, TimePasses, LimiterTick
  PROVE  LimiterInv'
<1>1. /\ clock' = clock + 1 /\ clock \in Nat /\ counters' = counters /\ config' = config
      /\ forgotten' = forgotten /\ asked' = Aged(asked) /\ granted' = Aged(granted)
  BY DEF TimePasses, LimiterTick, LimiterInv
<1>2. Window \in Nat \ {0} /\ Ages = 0 .. Window - 1 /\ 0 \in Ages /\ Window - 1 \in Ages
  BY RateLimiterAssumption DEF Ages
<1>3. asked' \in [Keys -> Histories] /\ granted' \in [Keys -> Histories]
  BY <1>1, AgedFacts DEF LimiterInv
<1>4. ASSUME NEW k \in DOMAIN counters
      PROVE  counters[k] \in Counter /\ counters[k].resetAt \in Nat
             /\ counters[k].resetAt <= clock + Window
  BY DEF LimiterInv, StoreOK, Store, Counter
<1>5. StoreOK(counters)'
  <2>1. \A k \in DOMAIN counters : counters[k].resetAt <= clock' + Window
    BY <1>1, <1>2, <1>4
  <2> QED BY <1>1, <2>1 DEF LimiterInv, StoreOK, Store
<1>6. ASSUME NEW k \in Keys \ forgotten
      PROVE  Watched(counters, k, asked[k], granted[k], MaxOf(k))'
  <2> DEFINE a == asked[k]
             g == granted[k]
             e == Aged(asked)[k]
             h == Aged(granted)[k]
             max == MaxOf(k)
  <2>1. /\ \A i \in Ages : a[i] \in Nat /\ g[i] \in Nat
        /\ \A i \in Ages : e[i] = IF i = 0 THEN 0 ELSE a[i - 1]
        /\ \A i \in Ages : h[i] = IF i = 0 THEN 0 ELSE g[i - 1]
    BY AgedFacts DEF LimiterInv, Histories
  <2>2. Watched(counters, k, a, g, max) /\ max \in Nat \ {0}
    BY MaxFacts DEF LimiterInv
  <2>3. asked'[k] = e /\ granted'[k] = h
    BY <1>1
  <2> HIDE DEF a, g, e, h, max
  <2>4. \A i, j \in Ages : i <= j => g[i] <= g[j]
    BY <2>2 DEF Watched
  <2>5. \A i \in Ages : h[i] \in Nat /\ h[i] <= g[i] /\ \A j \in Ages : i <= j => h[i] <= h[j]
    <3>1. \A i \in Ages \ {0} : i - 1 \in Ages
      BY <1>2
    <3>2. \A i \in Ages : i >= 0 /\ i \in Int
      BY <1>2
    <3>3. \A i \in Ages : h[i] \in Nat /\ h[i] <= g[i]
      BY <2>1, <2>4, <3>1, <3>2
    <3>4. ASSUME NEW i \in Ages, NEW j \in Ages, i <= j PROVE h[i] <= h[j]
      <4>1. CASE i = 0
        BY <2>1, <3>3, <4>1
      <4>2. CASE i # 0
        <5>1. j # 0 /\ i - 1 \in Ages /\ j - 1 \in Ages /\ i - 1 <= j - 1
          BY <3>1, <3>2, <3>4, <4>2
        <5> QED BY <2>1, <2>4, <4>2, <5>1
      <4> QED BY <4>1, <4>2
    <3> QED BY <3>3, <3>4
  <2>6. e[0] = 0 /\ h[0] = 0
    BY <1>2, <2>1
  <2>7. CASE Over(counters, k)
    <3>1. Over(counters, k)'
      BY <1>1, <1>4, <2>7 DEF Over
    <3>2. g[Window - 1] < max
      BY <2>2, <2>7 DEF Watched
    <3>3. h[Window - 1] < max
      <4>1. h[Window - 1] \in Nat /\ g[Window - 1] \in Nat /\ h[Window - 1] <= g[Window - 1]
        BY <1>2, <2>1, <2>5
      <4> QED BY <2>2, <3>2, <4>1
    <3> QED BY <1>1, <2>3, <2>5, <2>6, <3>1, <3>3 DEF Watched, max, MaxOf
  <2>8. CASE ~ Over(counters, k)
    <3> DEFINE b == StartOf(counters, k)
               n == counters[k].count
    <3>1. b \in Ages /\ n \in Nat /\ b \in Nat
      <4>1. b \in Ages /\ n \in Nat
        BY <2>8, StartIsAnAge DEF LimiterInv
      <4> QED BY <1>2, <4>1
    <3>2. /\ n = a[b] /\ g[b] <= n /\ g[b] <= max
          /\ \A i \in Ages : g[i] < g[b] + max
          /\ \/ g[b] >= 1 /\ \A i \in Ages : i < b => g[i] < g[b]
             \/ g[b] < n /\ g[b] < max
      BY <2>2, <2>8 DEF Watched
    <3>3. /\ StartOf(counters, k)' = b + 1 /\ k \in DOMAIN counters
          /\ Over(counters, k)' <=> b + 1 = Window
      <4>1. k \in DOMAIN counters /\ clock < counters[k].resetAt
        BY <1>4, <2>8, <1>1 DEF Over
      <4> QED BY <1>1, <1>2, <1>4, <4>1 DEF Over, StartOf
    <3> HIDE DEF b, n
    <3>4. CASE b + 1 = Window
      <4>1. h[Window - 1] < max
        <5>1. CASE b = 0
          BY <1>2, <2>2, <2>6, <3>4, <5>1
        <5>2. CASE b # 0
          <6>1. Window - 1 = b /\ b - 1 \in Ages /\ h[b] = g[b - 1]
            BY <1>2, <2>1, <3>1, <3>4, <5>2
          <6>2. g[b - 1] < g[b] \/ (g[b - 1] <= g[b] /\ g[b] < max)
            BY <2>4, <3>1, <3>2, <6>1
          <6> QED BY <2>1, <2>2, <3>1, <3>2, <6>1, <6>2
        <5> QED BY <5>1, <5>2
      <4>2. Over(counters, k)'
        BY <3>3, <3>4
      <4> QED BY <1>1, <2>3, <2>5, <2>6, <4>1, <4>2 DEF Watched, max, MaxOf
    <3>5. CASE b + 1 # Window
      <4>1. ~ Over(counters, k)' /\ b + 1 \in Ages
        BY <1>2, <3>1, <3>3, <3>5
      <4>2. e[b + 1] = a[b] /\ h[b + 1] = g[b]
        BY <2>1, <3>1, <4>1
      <4>3. \A i \in Ages : h[i] < h[b + 1] + max
        <5>1. \A i \in Ages : h[i] = 0 \/ (i - 1 \in Ages /\ h[i] = g[i - 1])
          BY <1>2, <2>1
        <5> QED BY <2>1, <2>2, <3>1, <3>2, <4>2, <5>1
      <4>4. \/ h[b + 1] >= 1 /\ \A i \in Ages : i < b + 1 => h[i] < h[b + 1]
            \/ h[b + 1] < n /\ h[b + 1] < max
        <5>1. CASE g[b] >= 1 /\ \A i \in Ages : i < b => g[i] < g[b]
          <6>1. \A i \in Ages : i < b + 1 =>
                  i = 0 \/ (i - 1 \in Ages /\ i - 1 < b /\ h[i] = g[i - 1])
            BY <1>2, <2>1, <3>1
          <6> QED BY <2>1, <2>6, <3>1, <4>2, <5>1, <6>1
        <5>2. CASE g[b] < n /\ g[b] < max
          BY <4>2, <5>2
        <5> QED BY <3>2, <5>1, <5>2
      <4>5. counters'[k].count = n
        BY <1>1 DEF n
      <4>6. n = e[b + 1] /\ h[b + 1] <= n /\ h[b + 1] <= max
        BY <3>2, <4>2
      <4>7. MaxOf(k)' = max
        BY DEF max, MaxOf
      <4> QED BY <1>1, <2>3, <2>5, <3>3, <4>1, <4>3, <4>4, <4>5, <4>6, <4>7 DEF Watched
    <3> QED BY <3>4, <3>5
  <2> QED BY <2>7, <2>8
<1> QED BY <1>1, <1>3, <1>5, <1>6 DEF LimiterInv

-----------------------------------------------------------------------------
\* The theorems about the limiter

LEMMA LimiterStarts ==
  ASSUME clock \in Nat, LimiterInit
  PROVE  LimiterInv
<1>1. Window \in Nat \ {0} /\ MaxTrackedKeys \in Nat /\ Window - 1 \in Ages /\ 0 \in Ages
  BY RateLimiterAssumption DEF Ages
<1>2. DOMAIN counters = {} /\ StoreOK(counters)
  BY <1>1, FS_EmptySet DEF LimiterInit, StoreOK, Store
<1>3. asked = NoHistory /\ granted = NoHistory
  BY DEF LimiterInit
<1>4. NoHistory \in [Keys -> Histories]
  BY DEF NoHistory, Histories
<1>5. ASSUME NEW k \in Keys PROVE Watched(counters, k, asked[k], granted[k], MaxOf(k))
  <2>1. \A i \in Ages : asked[k][i] = 0 /\ granted[k][i] = 0
    BY <1>3 DEF NoHistory
  <2> QED BY <1>1, <1>2, <2>1, MaxFacts DEF Watched, Over
<1>6. config.rateLimitPerMinute \in Nat \cup {NoCeiling}
  BY DEF LimiterInit, DefaultConfig
<1> QED BY <1>2, <1>3, <1>4, <1>5, <1>6 DEF LimiterInv

LEMMA LimiterStartsAgain ==
  ASSUME clock \in Nat, clock' = clock, LimiterRestart
  PROVE  LimiterInv'
<1>1. Window \in Nat \ {0} /\ MaxTrackedKeys \in Nat /\ Window - 1 \in Ages /\ 0 \in Ages
  BY RateLimiterAssumption DEF Ages
<1>2. DOMAIN counters' = {} /\ StoreOK(counters)'
  BY <1>1, FS_EmptySet DEF LimiterRestart, StoreOK, Store
<1>3. asked' = NoHistory /\ granted' = NoHistory
  BY DEF LimiterRestart
<1>4. NoHistory \in [Keys -> Histories]
  BY DEF NoHistory, Histories
<1>5. ASSUME NEW k \in Keys PROVE Watched(counters, k, asked[k], granted[k], MaxOf(k))'
  <2>1. \A i \in Ages : asked'[k][i] = 0 /\ granted'[k][i] = 0
    BY <1>3 DEF NoHistory
  <2>2. MaxOf(k)' \in Nat \ {0}
    BY MaxFacts DEF MaxOf
  <2> QED BY <1>1, <1>2, <2>1, <2>2 DEF Watched, Over
<1>6. config'.rateLimitPerMinute \in Nat \cup {NoCeiling}
  BY DEF LimiterRestart, DefaultConfig
<1> QED BY <1>2, <1>3, <1>4, <1>5, <1>6 DEF LimiterInv

\* A new configuration moves the ceiling, and nothing that was counted.
LEMMA ConfigurationKeeps ==
  ASSUME LimiterInv, UNCHANGED <<clock, counters, asked, granted, forgotten>>,
         config'.rateLimitPerMinute \in Nat \cup {NoCeiling}
  PROVE  LimiterInv'
<1>1. StoreOK(counters)'
  BY DEF LimiterInv, StoreOK, Store
<1>2. \A k \in Keys \ forgotten : Watched(counters, k, asked[k], granted[k], MaxOf(k))'
  BY DEF LimiterInv, Watched, Over, StartOf, MaxOf
<1> QED BY <1>1, <1>2 DEF LimiterInv

LEMMA ConfigureFacts ==
  ASSUME config.rateLimitPerMinute \in Nat \cup {NoCeiling}, config.maintenanceMode \in BOOLEAN,
         Configure
  PROVE  config'.rateLimitPerMinute \in Nat \cup {NoCeiling} /\ config'.maintenanceMode \in BOOLEAN
<1>1. CASE config' = config
  BY <1>1
<1>2. CASE config' = DefaultConfig
  BY <1>2 DEF DefaultConfig
<1>3. CASE \E p \in DOMAIN Patches : config' = Patched(Patches[p])
  <2>1. PICK p \in DOMAIN Patches : config' = Patched(Patches[p])
    BY <1>3
  <2>2. /\ config'.rateLimitPerMinute = IF "rateLimitPerMinute" \in DOMAIN Patches[p]
                                        THEN Patches[p].rateLimitPerMinute
                                        ELSE config.rateLimitPerMinute
        /\ config'.maintenanceMode = IF "maintenanceMode" \in DOMAIN Patches[p]
                                     THEN Patches[p].maintenanceMode
                                     ELSE config.maintenanceMode
    BY <2>1 DEF Patched, MutableKeys
  <2> QED BY <2>2, GatewayAssumption
<1> QED BY <1>1, <1>2, <1>3 DEF Configure

GatewayInv ==
  /\ LimiterInv /\ config.maintenanceMode \in BOOLEAN
  /\ clock \in 0 .. MaxClock /\ events \in 0 .. MaxEvents

LEMMA GatewayStepKeeps == GatewayInv /\ [Next]_vars => GatewayInv'
<1> SUFFICES ASSUME GatewayInv, [Next]_vars PROVE GatewayInv'
  OBVIOUS
<1> USE DEF GatewayInv
<1>0. clock \in Nat /\ MaxClock \in Nat /\ MaxEvents \in Nat
  BY ClockAssumption, GatewayAssumption
<1>1. Another => events' \in 0 .. MaxEvents
  BY <1>0 DEF Another
<1>2. CASE \E ip \in Ips : Arrives(ip) /\ UNCHANGED <<clock, config>>
  BY <1>1, <1>2, LimitKeeps DEF Arrives
<1>3. CASE \E ip \in Ips : Challenge(ip)
  BY <1>1, <1>3, LimitChallengeKeeps DEF Challenge
<1>4. CASE Resume
  <2>1. /\ config'.rateLimitPerMinute \in Nat \cup {NoCeiling}
        /\ config'.maintenanceMode \in BOOLEAN
    BY <1>4, ConfigureFacts DEF Resume, LimiterInv
  <2> QED BY <1>4, <2>1, ConfigurationKeeps DEF Resume
<1>5. CASE Outside
  <2>1. /\ UNCHANGED <<clock, counters, asked, granted, forgotten>> /\ config' = config
        /\ events' \in 0 .. MaxEvents
    BY <1>1, <1>5 DEF Outside, limiterVars
  <2> QED BY <2>1, ConfigurationKeeps DEF LimiterInv
<1>6. CASE Restart
  <2>1. clock' = clock /\ LimiterRestart /\ Another
    BY <1>6 DEF Restart
  <2> QED BY <1>0, <1>1, <2>1, LimiterStartsAgain DEF LimiterRestart, DefaultConfig
<1>7. CASE Tick
  <2>1. clock' \in 0 .. MaxClock /\ events' = events /\ config' = config
    BY <1>0, <1>7 DEF Tick, TimePasses, LimiterTick
  <2> QED BY <1>7, <2>1, TickKeeps DEF Tick
<1>8. CASE UNCHANGED vars
  <2>1. /\ UNCHANGED <<clock, counters, asked, granted, forgotten>> /\ config' = config
        /\ events' = events
    BY <1>8 DEF vars, limiterVars
  <2> QED BY <2>1, ConfigurationKeeps DEF LimiterInv
<1> QED BY <1>2, <1>3, <1>4, <1>5, <1>6, <1>7, <1>8 DEF Next, TokenRequest, KeyRequest

LEMMA GatewayStarts == Init => GatewayInv
<1> SUFFICES ASSUME Init PROVE GatewayInv
  OBVIOUS
<1>1. clock \in 0 .. MaxClock /\ clock \in Nat /\ events \in 0 .. MaxEvents
  BY ClockAssumption, GatewayAssumption DEF Init
<1> QED BY <1>1, LimiterStarts DEF Init, GatewayInv, LimiterInit, DefaultConfig

\* The limiter knows enough of the history to bound it, in every reachable state.
THEOREM BudgetsAreWatched == Spec => []GatewayInv
BY GatewayStarts, GatewayStepKeeps, PTL DEF Spec

\* The store never outgrows its cap, and a counter that no eviction interfered with
\* holds exactly the requests of its limiter and client since its window began
\* (rateLimiter.js:61-86, 181-193).
THEOREM CountsAreExact == Spec => []CountersCountTheirWindow
<1>1. GatewayInv => CountersCountTheirWindow
  <2> SUFFICES ASSUME GatewayInv PROVE CountersCountTheirWindow
    OBVIOUS
  <2>1. CountersAreCapped
    BY DEF GatewayInv, LimiterInv, StoreOK, Store, CountersAreCapped
  <2>2. ASSUME NEW k \in Unexpired(counters) \ forgotten
        PROVE  counters[k].count = asked[k][clock - (counters[k].resetAt - Window)]
    <3>1. k \in DOMAIN counters /\ k \in Keys /\ clock \in Nat /\ counters[k].resetAt \in Nat
          /\ clock < counters[k].resetAt
      BY DEF GatewayInv, LimiterInv, StoreOK, Store, Counter, Unexpired
    <3>2. ~ Over(counters, k) /\ clock - (counters[k].resetAt - Window) = StartOf(counters, k)
      BY <3>1, RateLimiterAssumption DEF Over, StartOf
    <3>3. Watched(counters, k, asked[k], granted[k], MaxOf(k))
      BY <3>1 DEF GatewayInv, LimiterInv
    <3> QED BY <3>2, <3>3 DEF Watched
  <2> QED BY <2>1, <2>2 DEF CountersCountTheirWindow
<1> QED BY <1>1, BudgetsAreWatched, PTL

\* For any budgets, ceilings, windows and clients: over the length of a window a
\* client gets less than two budgets, wherever its windows begin
\* (rateLimiter.js:185-203).
THEOREM BudgetsHold == Spec => []LessThanTwoBudgets
<1>1. GatewayInv => LessThanTwoBudgets
  <2> SUFFICES ASSUME GatewayInv, NEW ip \in Ips, NEW l \in Limiters, Own(l, ip) \notin forgotten
               PROVE  granted[Own(l, ip)][Window - 1]
                        < 2 * (IF l = "" THEN TierMax["free"] ELSE ChallengeMax)
    BY DEF LessThanTwoBudgets
  <2> DEFINE k == Own(l, ip)
             max == MaxOf(k)
  <2>1. k \in Keys /\ max = IF l = "" THEN TierMax["free"] ELSE ChallengeMax
    BY DEF Own, Keys, MaxOf
  <2>2. max \in Nat \ {0} /\ Window - 1 \in Ages
    BY MaxFacts, RateLimiterAssumption DEF Ages
  <2>3. Watched(counters, k, asked[k], granted[k], max)
    BY <2>1 DEF GatewayInv, LimiterInv
  <2>4. \A i \in Ages : granted[k][i] \in Nat
    BY <2>1 DEF GatewayInv, LimiterInv, Histories
  <2>5. ~ Over(counters, k) => StartOf(counters, k) \in Ages
    BY StartIsAnAge DEF GatewayInv, LimiterInv
  <2> HIDE DEF k, max
  <2>6. granted[k][Window - 1] < 2 * max
    BY <2>2, <2>3, <2>4, <2>5 DEF Watched
  <2> QED BY <2>1, <2>6 DEF k
<1> QED BY <1>1, BudgetsAreWatched, PTL

-----------------------------------------------------------------------------
\* The gateway

\* Every step of the gateway is a step of authentication, or leaves it alone: the
\* limiter, the gate and the configuration only decide who gets to it.
LEMMA GatewayStepsAreAccessSteps == [Next]_vars => [AccessNext]_<<clock, accessVars>>
<1> SUFFICES ASSUME [Next]_vars PROVE [AccessNext]_<<clock, accessVars>>
  OBVIOUS
<1>1. CASE UNCHANGED vars
  BY <1>1 DEF vars
<1>2. CASE \E ip \in Ips, t \in Tokens, route \in Routes : TokenRequest(ip, t, route)
  BY <1>2 DEF TokenRequest, AccessNext
<1>3. CASE \E ip \in Ips, k \in ApiKeys : KeyRequest(ip, k)
  BY <1>3 DEF KeyRequest, AccessNext
<1>4. CASE \E ip \in Ips : Challenge(ip)
  BY <1>4 DEF Challenge, AccessNext
<1>5. CASE Resume
  BY <1>5 DEF Resume, AccessNext
<1>6. CASE Outside
  BY <1>6 DEF Outside, AccessNext
<1>7. CASE Restart
  BY <1>7 DEF Restart, AccessNext
<1>8. CASE Tick
  BY <1>8 DEF Tick, AccessNext
<1> QED
  BY <1>1, <1>2, <1>3, <1>4, <1>5, <1>6, <1>7, <1>8 DEF Next

\* The gateway implements authentication, whatever stands before it.
THEOREM GatewayImplementsAccess == Spec => AccessSpec
<1>1. Init => clock = 0 /\ AccessInit
  BY DEF Init
<1> QED
  BY <1>1, GatewayStepsAreAccessSteps, PTL DEF Spec, AccessSpec

\* Every variable keeps its type behind the gateway, the limiter's store its cap.
THEOREM GatewayKeepsTypes == Spec => []TypeOK
<1>1. AccessInv /\ GatewayInv => TypeOK
  BY DEF AccessInv, GatewayInv, LimiterInv, StoreOK, Store, TypeOK, ClockOK, CountersAreCapped
<1> QED
  BY <1>1, AccessIsConsistent, GatewayImplementsAccess, BudgetsAreWatched, PTL

\* A sign-out holds behind the gateway but for kept questions: through both
\* limiters, the maintenance gate, changes of the configuration, and requests that
\* wait for the cache.
THEOREM GatewaySignOutHolds == Spec => OnlyKeptCallsOutliveSignOut
  BY SignOutHolds, GatewayImplementsAccess, PTL

\* So does what Redis has taken.
THEOREM GatewayDurableSignOut == Spec => DurableSignOutHolds
  BY DurableSignOut, GatewayImplementsAccess, PTL

=============================================================================
