------------------------------- MODULE Gateway -------------------------------
\* What a request to /api meets, in the order of app.js and routes/index.js: the
\* tier's limiter (and the challenge's), the maintenance gate of the public API,
\* authentication, the admin guard, and the handlers that change what the next
\* request meets.  One Node.js process: a step is what runs in one event, and a
\* request waits only for the cache (module Access).
EXTENDS RateLimiter, Access

CONSTANTS
  Patches,       \* [AdminCalls -> values of a PATCH /api/admin/config]; the other
                 \* member of AdminCalls is its reset
  MaxEvents      \* bound: requests, restarts and changes from outside in a behaviour

ASSUME GatewayAssumption ==
  /\ AdminCalls = DOMAIN Patches \cup {"reset"} /\ MaxEvents \in Nat
  /\ \A p \in DOMAIN Patches :
       /\ "rateLimitPerMinute" \in DOMAIN Patches[p] =>
            Patches[p].rateLimitPerMinute \in Nat \cup {NoCeiling}
       /\ "maintenanceMode" \in DOMAIN Patches[p] => Patches[p].maintenanceMode \in BOOLEAN

VARIABLE events    \* so far

vars == <<clock, limiterVars, accessVars, events>>

\* maintenanceGate() stands before the exports and the analytics, not before the
\* admin API and the sign-out.
Closed(route) == config.maintenanceMode /\ route \in {"exports", "readings"}

Another == events < MaxEvents /\ events' = events + 1

Arrives(ip) == Another /\ Limit(ip)

\* A request with a bearer token.
TokenRequest(ip, t, route) ==
  /\ Arrives(ip)
  /\ IF PassesTier(ip) /\ ~Closed(route) THEN Authenticate(t, route) ELSE Rejected
  /\ UNCHANGED <<clock, config>>

\* A request with an API key: GET /api/analytics/readings.
KeyRequest(ip, k) ==
  /\ Arrives(ip)
  /\ IF PassesTier(ip) /\ ~Closed("readings") THEN UseKey(k) ELSE Rejected
  /\ UNCHANGED <<clock, config>>

\* POST /api/auth/challenge: a token more, which no variable knows.
Challenge(ip) ==
  /\ Another
  /\ LimitChallenge(ip)
  /\ Rejected
  /\ UNCHANGED <<clock, config>>

\* PATCH /api/admin/config and POST /api/admin/config/reset, once they are
\* authenticated, change the configuration in the same event.
Configure ==
  config' = IF served'.route \notin AdminCalls THEN config
            ELSE IF served'.route \in DOMAIN Patches THEN Patched(Patches[served'.route])
            ELSE DefaultConfig

\* A promise of the cache settles, and the request goes on.
Resume ==
  /\ CacheSettles
  /\ Configure
  /\ UNCHANGED <<clock, counters, asked, granted, forgotten, events>>

Outside ==
  /\ \/ (LinkChanges \/ LinkGivenUp) /\ UNCHANGED events
     \/ Another /\ LinkLost
     \/ Another /\ \E t \in Tokens : PeerSignsOut(t)
     \/ Another /\ \E k \in ApiKeys : RevokeKey(k)
  /\ UNCHANGED <<clock, limiterVars>>

Restart == Another /\ AccessRestart /\ LimiterRestart /\ UNCHANGED clock

Tick == TimePasses /\ LimiterTick /\ Rejected /\ UNCHANGED events

Init == clock = 0 /\ LimiterInit /\ AccessInit /\ events = 0

Next ==
  \/ \E ip \in Ips :
       \/ \E t \in Tokens, route \in Routes : TokenRequest(ip, t, route)
       \/ \E k \in ApiKeys : KeyRequest(ip, k)
       \/ Challenge(ip)
  \/ Resume \/ Outside \/ Restart \/ Tick

Spec == Init /\ [][Next]_vars

-----------------------------------------------------------------------------
\* Every variable keeps its type, the limiter's store its cap.
TypeOK ==
  /\ ClockOK /\ AccessOK /\ CountersAreCapped
  /\ config.maintenanceMode \in BOOLEAN /\ config.rateLimitPerMinute \in Nat \cup {NoCeiling}
  /\ events \in 0 .. MaxEvents

=============================================================================
