-------------------------------- MODULE Access --------------------------------
\* Who is served: JWT authentication and sign-out (middleware/auth.js, the two
\* logout routes), the admin guard, and API keys (middleware/apiKeyAuth.js,
\* repositories/ApiKeyRepository.js).
\*
\* A sign-out is kept in a set of the process and in the cache.  The cache is
\* asked without order between requests but answers in order.  A call that is
\* sent to Redis is on the `wire`, and other requests run while it waits; it
\* stays there when the connection breaks, and is sent again when there is one
\* (see Cache).  On the fallback, or without a connection, a call is one of the
\* `tasks` that settle in the microtasks of the same event.  The memory fallback
\* holds no revocation that the set does not, so it is left out.
EXTENDS Clock, Sequences, FiniteSets

CONSTANTS
  Tokens,       \* signed tokens, each with a jti of its own
  Admins,       \* those that have the admin role
  Exp,          \* [Tokens -> the tick from which jwt.verify() refuses them]
  ApiKeys,      \* active keys of the repository when the process starts
  KeyExpiry,    \* [ApiKeys -> expiresAt]
  KeyScopes,    \* [ApiKeys -> permissions]
  AdminCalls,   \* requests to the admin API, other than its logout
  MaxPending    \* bound: cache calls open at once

ASSUME AccessAssumption ==
  /\ Admins \subseteq Tokens
  /\ Exp \in [Tokens -> Nat]
  /\ AdminCalls \cap {"exports", "logout"} = {}
  /\ Tokens \cap ApiKeys = {}
  /\ MaxPending \in Nat

VARIABLES
  revokedLocally,   \* auth.js:16
  link,             \* "redis", "memory" (cache._useMemory), "down" (neither), or
                    \* "gone" (the client has given up)
  redis,            \* [Tokens -> the tick until which revoked:<jti> is kept, or 0]
  wire,             \* calls on Redis' connection, oldest first
  tasks,            \* calls that settle before the next event
  revokedKeys,      \* keys whose status is 'revoked'
  signedOut,        \* history: tokens whose sign-out this process has answered
  durable,          \* history: tokens whose sign-out Redis has taken
  served            \* what the last step let through: nobody, or who and how

accessVars ==
  <<revokedLocally, link, redis, wire, tasks, revokedKeys, signedOut, durable, served>>

Nobody == [cred |-> {}, route |-> "none", via |-> "none", kept |-> FALSE]
\* A call is kept when the connection it was sent on has broken since.
Get(t, route) == [op |-> "get", token |-> t, route |-> route, ttl |-> 0, kept |-> FALSE]
Set(t, ttl) == [op |-> "set", token |-> t, route |-> "none", ttl |-> ttl, kept |-> FALSE]

\* Exports stand for all that any token may read.
AdminRoutes == AdminCalls \cup {"adminLogout"}
Routes == AdminRoutes \cup {"exports", "logout"}
SignsOut == {"logout", "adminLogout"}

\* requireAdmin() stands before every route of the admin router.
Allowed(t, route) == route \in AdminRoutes => t \in Admins

\* mutant: the entry is kept for a fixed time
TtlFixed(t) == 1

\* revokeToken(): at least a second, at most the rest of the token's life.
Ttl(t) == IF Exp[t] > clock THEN Exp[t] - clock ELSE 1

\* What settles in the microtasks settles before the next event is taken.
Settled == tasks = <<>>

Refuse == served' = Nobody

\* mutant: only the cache is told of a sign-out
HandleUnremembered(call, via) ==
  /\ IF Allowed(call.token, call.route)
     THEN served' = [cred |-> call.token, route |-> call.route, via |-> via, kept |-> call.kept]
     ELSE Refuse
  /\ UNCHANGED revokedLocally

\* What follows a successful authentication: the guard, and the route's handler.
\* A sign-out enters the set at once and then waits for the cache.
Handle(call, via) ==
  IF Allowed(call.token, call.route)
  THEN /\ served' = [cred |-> call.token, route |-> call.route, via |-> via, kept |-> call.kept]
       /\ revokedLocally' = revokedLocally \cup IF call.route \in SignsOut THEN {call.token} ELSE {}
  ELSE Refuse /\ UNCHANGED revokedLocally

\* The calls behind this one, and the one its handler makes.
Following(call, rest) ==
  IF Allowed(call.token, call.route) /\ call.route \in SignsOut
  THEN Append(rest, Set(call.token, Ttl(call.token))) ELSE rest

\* authenticate(): verify, look at the set, then ask the cache.
Authenticate(t, route) ==
  /\ Settled /\ Len(wire) < MaxPending
  /\ Refuse
  /\ \/ /\ clock >= Exp[t] \/ t \in revokedLocally
        /\ UNCHANGED <<wire, tasks>>
     \/ /\ clock < Exp[t] /\ t \notin revokedLocally /\ link = "redis"
        /\ wire' = Append(wire, Get(t, route)) /\ UNCHANGED tasks
     \/ /\ clock < Exp[t] /\ t \notin revokedLocally /\ link # "redis"
        /\ tasks' = <<Get(t, route)>> /\ UNCHANGED wire
  /\ UNCHANGED <<revokedLocally, link, redis, revokedKeys, signedOut, durable>>

\* Redis answers the oldest call; isTokenRevoked() does not look at the set again.
Oldest == Head(wire)
RedisAnswersGet ==
  /\ link = "redis" /\ wire # <<>> /\ Oldest.op = "get"
  /\ IF clock < redis[Oldest.token]
     THEN Refuse /\ wire' = Tail(wire) /\ UNCHANGED revokedLocally
     ELSE Handle(Oldest, "redis") /\ wire' = Following(Oldest, Tail(wire))
  /\ UNCHANGED <<tasks, link, redis, revokedKeys, signedOut, durable>>

RedisAnswersSet ==
  /\ link = "redis" /\ wire # <<>> /\ Oldest.op = "set"
  /\ Refuse
  /\ redis' = [redis EXCEPT ![Oldest.token] = clock + Oldest.ttl]
  /\ signedOut' = signedOut \cup {Oldest.token}
  /\ durable' = durable \cup {Oldest.token}
  /\ wire' = Tail(wire)
  /\ UNCHANGED <<tasks, revokedLocally, link, revokedKeys>>

\* The next call is answered by the fallback, or fails: get() turns an error
\* into null, and the token passes; set() logs it, and the sign-out is answered.
First == Head(tasks)
FallsBackGet ==
  /\ tasks # <<>> /\ First.op = "get"
  /\ Handle(First, "fallback") /\ tasks' = Following(First, Tail(tasks))
  /\ UNCHANGED <<wire, link, redis, revokedKeys, signedOut, durable>>

FallsBackSet ==
  /\ tasks # <<>> /\ First.op = "set"
  /\ Refuse
  /\ signedOut' = signedOut \cup {First.token}
  /\ tasks' = Tail(tasks)
  /\ UNCHANGED <<wire, revokedLocally, link, redis, revokedKeys, durable>>

\* The entry of t when Redis has executed the first n of the open calls.
TakenBy(n, t) ==
  LET sets(m) == {i \in m .. n : wire[i].op = "set" /\ wire[i].token = t}
      last == {i \in sets(1) : sets(i + 1) = {}}
  IN IF last = {} THEN redis[t] ELSE clock + wire[CHOOSE i \in last : TRUE].ttl

\* A connection breaks; Redis may have executed the first n of the open calls.
\* They stay open, to be sent again.
LinkLost ==
  /\ link = "redis" /\ link' \in {"memory", "down"}
  /\ Refuse
  /\ \E n \in 0 .. Len(wire) : redis' = [t \in Tokens |-> TakenBy(n, t)]
  /\ wire' = [i \in DOMAIN wire |-> [wire[i] EXCEPT !.kept = TRUE]]
  /\ UNCHANGED <<tasks, revokedLocally, revokedKeys, signedOut, durable>>

\* 'connect' leaves the fallback before commands can be sent ('ready'), and a
\* failed attempt goes back to it.
LinkChanges ==
  /\ link \in {"memory", "down"} /\ Settled
  /\ link' \in IF link = "down" THEN {"redis", "memory"} ELSE {"down"}
  /\ Refuse
  /\ UNCHANGED <<revokedLocally, redis, wire, tasks, revokedKeys, signedOut, durable>>

\* The client gives up.  The calls it has kept fail, or, when a connection since
\* has made it forget them, stay open for ever: their requests are not answered.
LinkGivenUp ==
  /\ link \in {"memory", "down"} /\ Settled
  /\ link' = "gone"
  /\ Refuse
  /\ wire' = <<>> /\ tasks' \in {wire, <<>>}
  /\ UNCHANGED <<revokedLocally, redis, revokedKeys, signedOut, durable>>

\* Another instance signs t out, on the Redis they share.
PeerSignsOut(t) ==
  /\ Settled /\ clock < Exp[t] /\ t \notin durable
  /\ Refuse
  /\ redis' = [redis EXCEPT ![t] = clock + Ttl(t)]
  /\ durable' = durable \cup {t}
  /\ UNCHANGED <<revokedLocally, link, wire, tasks, revokedKeys, signedOut>>

\* requireApiKey({permission: 'read'}).  The check after findActive() reads the
\* copy that findActive() made, in the same event: it sees what that one saw.
UseKey(k) ==
  /\ Settled
  /\ served' = IF k \notin revokedKeys /\ clock < KeyExpiry[k] /\ "read" \in KeyScopes[k]
               THEN [cred |-> k, route |-> "readings", via |-> "key", kept |-> FALSE] ELSE Nobody
  /\ UNCHANGED <<revokedLocally, link, redis, wire, tasks, revokedKeys, signedOut, durable>>

\* ApiKeyRepository.revokeKey().
RevokeKey(k) ==
  /\ Settled /\ k \notin revokedKeys
  /\ Refuse
  /\ revokedKeys' = revokedKeys \cup {k}
  /\ UNCHANGED <<revokedLocally, link, redis, wire, tasks, signedOut, durable>>

\* What a request that gets no further costs: nothing.
Rejected ==
  /\ Settled
  /\ Refuse
  /\ UNCHANGED <<revokedLocally, link, redis, wire, tasks, revokedKeys, signedOut, durable>>

\* The process dies with its set, its keys and its promises; Redis stays.
AccessRestart ==
  /\ revokedLocally' = {} /\ revokedKeys' = {}
  /\ wire' = <<>> /\ tasks' = <<>> /\ signedOut' = {}
  /\ link' \in {"redis", "memory"}
  /\ Refuse
  /\ UNCHANGED <<redis, durable>>

AccessInit ==
  /\ revokedLocally = {} /\ revokedKeys = {}
  /\ link \in {"redis", "memory"}
  /\ redis = [t \in Tokens |-> 0]
  /\ wire = <<>> /\ tasks = <<>>
  /\ signedOut = {} /\ durable = {}
  /\ served = Nobody

CacheSettles == RedisAnswersGet \/ RedisAnswersSet \/ FallsBackGet \/ FallsBackSet

AccessNext ==
  \/ /\ \/ \E t \in Tokens, route \in Routes : Authenticate(t, route)
        \/ CacheSettles \/ LinkLost \/ LinkChanges \/ LinkGivenUp
        \/ \E t \in Tokens : PeerSignsOut(t)
        \/ \E k \in ApiKeys : UseKey(k) \/ RevokeKey(k)
        \/ Rejected \/ AccessRestart
     /\ UNCHANGED clock
  \/ TimePasses /\ Rejected

AccessSpec == clock = 0 /\ AccessInit /\ [][AccessNext]_<<clock, accessVars>>

-----------------------------------------------------------------------------
\* Every variable keeps its type.
AccessOK ==
  /\ revokedLocally \in SUBSET Tokens
  /\ link \in {"redis", "memory", "down", "gone"}
  /\ redis \in [Tokens -> Nat]
  /\ {wire, tasks} \subseteq
       Seq([op : {"get", "set"}, token : Tokens, route : Routes \cup {"none"}, ttl : Nat,
            kept : BOOLEAN])
  /\ revokedKeys \in SUBSET ApiKeys
  /\ signedOut \in SUBSET Tokens
  /\ durable \in SUBSET Tokens

\* What the sign-out promises, "the token stops working the moment this responds"
\* (routes/index.js:117), and likewise the revocation of a key: once it has been
\* answered, this process serves the credential nowhere.  It does not hold of the
\* requests whose question to the cache is kept over an outage.
NoServiceAfterSignOut ==
  [][served' # Nobody => served'.cred \notin signedOut \cup revokedKeys]_<<clock, accessVars>>

\* Nothing else may outlive a sign-out: not a request that was waiting for the
\* cache, or came in while the sign-out did, not the coming and going of Redis, not
\* the fallback (auth.js:24-42).  Only a question that was on a connection when it
\* broke can still be answered as before.
OnlyKeptCallsOutliveSignOut ==
  [][(served' # Nobody /\ ~served'.kept)
       => served'.cred \notin signedOut \cup revokedKeys]_<<clock, accessVars>>

\* A sign-out that Redis has taken, here, in a former process or in a peer, holds
\* for the rest of the token's life wherever Redis is asked (auth.js:18-30).
DurableSignOutHolds ==
  [][(served'.via = "redis" /\ clock < Exp[served'.cred]) => served'.cred \notin durable]_<<clock, accessVars>>

=============================================================================
