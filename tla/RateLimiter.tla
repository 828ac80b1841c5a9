----------------------------- MODULE RateLimiter -----------------------------
\* The tiered rate limiter (middleware/rateLimiter.js), its tiers
\* (config/rateLimits.js), and the runtime configuration that caps all tiers
\* (data/adminStore.js, routes/admin/config.js).  Counters live in a Map whose
\* order of insertion decides between counters that expire together: the place
\* of a counter is its number in that order.
EXTENDS Clock, Integers, FiniteSets, FiniteSetsExt

CONSTANTS
  Ips,              \* req.ip of the clients
  Window,           \* windowMs: 60_000 in every tier and in the challenge limiter
  TierMax,          \* [tier -> max]
  ChallengeMax,     \* max of the limiter before /api/auth/challenge
  MaxTrackedKeys    \* RATE_LIMIT_MAX_KEYS

ASSUME RateLimiterAssumption ==
  /\ Window \in Nat \ {0}
  /\ {ChallengeMax} \cup {TierMax[t] : t \in DOMAIN TierMax} \subseteq Nat \ {0}
  /\ DOMAIN TierMax = {"free", "premium", "admin", "internal"}
  /\ MaxTrackedKeys \in Nat \ {0}

VARIABLES
  counters,    \* _store: [tracked key -> [count, resetAt, place]]
  config,      \* the live configuration of adminStore.js
  asked,       \* history: [Keys -> [age -> requests that met it, see Aged]]
  granted,     \* history: [Keys -> [age -> requests that it let through]]
  forgotten    \* history: keys whose counter was evicted before it expired

limiterVars == <<counters, config, asked, granted, forgotten>>

\* mutant: no prefix
KeyUnprefixed(tier, prefix, identity) == <<tier, "", identity>>

\* A limiter counts per tier, prefix and identity.  The prefix is what keeps the
\* counters of the challenge limiter apart from those of the tier.
Key(tier, prefix, identity) == <<tier, prefix, identity>>

Limiters == {"", "authchallenge"}
Keys == {<<"free", p, ip>> : p \in Limiters, ip \in Ips}
Ages == 0 .. Window - 1
Anonymous == [role |-> "none", keyTier |-> "none"]

\* determineTier(): the tier of an API key first, then the role of a token.
\* app.js:151 mounts the limiter before the routers that authenticate: it only
\* ever sees Anonymous.
Tier(who) ==
  CASE who.keyTier = "internal" -> "internal"
    [] who.keyTier \in {"standard", "premium"} -> "premium"
    [] OTHER -> IF who.role \in {"admin", "internal", "premium"}
                THEN who.role ELSE "free"

\* The runtime ceiling only lowers a budget.  NoCeiling stands for null and for
\* every value that is not a positive finite number, 0 and a numeric string
\* included.  A fraction is as good as the whole number below it, so that 0 is a
\* ceiling of less than one request, under which none passes.
NoCeiling == -1
Budget(max) ==
  IF config.rateLimitPerMinute = NoCeiling THEN max
  ELSE Min({max, config.rateLimitPerMinute})

\* _enforceStoreCap(): expired counters go first, then those that expire soonest;
\* the sort is stable, so of two that expire together the older one goes.
Unexpired(s) == {k \in DOMAIN s : clock < s[k].resetAt}

Sooner(s, j, k) ==
  \/ s[j].resetAt < s[k].resetAt
  \/ s[j].resetAt = s[k].resetAt /\ s[j].place < s[k].place

SoonestFirst(s, ks) ==
  {k \in ks : Cardinality({j \in ks : Sooner(s, j, k)}) >= Cardinality(ks) - MaxTrackedKeys}

Kept(s) ==
  IF Cardinality(Unexpired(s)) <= MaxTrackedKeys THEN Unexpired(s)
  ELSE SoonestFirst(s, Unexpired(s))

\* The others are deleted, and the order of those that stay is kept.
Keep(s, ks) ==
  [k \in ks |-> [s[k] EXCEPT !.place = Cardinality({j \in ks : s[j].place <= s[k].place})]]

\* mutant: only garbage is dropped
EnforceStoreCapByAge(s) ==
  IF Cardinality(DOMAIN s) <= MaxTrackedKeys THEN s ELSE Keep(s, Unexpired(s))

EnforceStoreCap(s) ==
  IF Cardinality(DOMAIN s) <= MaxTrackedKeys THEN s ELSE Keep(s, Kept(s))

\* mutant: the window ends a tick before its limit says
OverEarly(s, k) == k \notin DOMAIN s \/ clock + 1 >= s[k].resetAt

\* Is there no window to count in?  It ends at resetAt, not after it.
Over(s, k) == k \notin DOMAIN s \/ clock >= s[k].resetAt

\* A new window: a key that is in the Map keeps its place there.
Reset(s, k) ==
  [j \in DOMAIN s \cup {k} |->
     IF j # k THEN s[j]
     ELSE [count |-> 0, resetAt |-> clock + Window,
           place |-> IF k \in DOMAIN s THEN s[k].place ELSE Cardinality(DOMAIN s) + 1]]

Opened(s, k) == EnforceStoreCap(Reset(s, k))

\* The store after one request of key k.
Counted(s, k) ==
  LET t == IF Over(s, k) THEN Opened(s, k) ELSE s IN
  [j \in DOMAIN t |-> IF j = k THEN [t[j] EXCEPT !.count = @ + 1] ELSE t[j]]

CountAt(s, k) == IF Over(s, k) THEN 1 ELSE s[k].count + 1

\* One limiter on the way of a request: 429 beyond the budget.
Admits(s, k, max) == CountAt(s, k) <= Budget(max)

Evicted(s, t) == {k \in DOMAIN s : clock < s[k].resetAt /\ k \notin DOMAIN t}

\* History: the requests of the last a + 1 ticks, for every age a.
Aged(h) == [k \in Keys |-> [a \in Ages |-> IF a = 0 THEN 0 ELSE h[k][a - 1]]]
Noted(h, ks) == [k \in Keys |-> [a \in Ages |-> IF k \in ks THEN h[k][a] + 1 ELSE h[k][a]]]
NoHistory == [k \in Keys |-> [a \in Ages |-> 0]]

\* The limiters before a request: the tier's, and for a challenge the strict one
\* behind it, which only a request that passed the first one meets.
TierKey(ip) == Key(Tier(Anonymous), "", ip)
ChallengeKey(ip) == Key("free", "authchallenge", ip)

PassesTier(ip) == Admits(counters, TierKey(ip), TierMax[Tier(Anonymous)])
PassesChallenge(ip) ==
  Admits(Counted(counters, TierKey(ip)), ChallengeKey(ip), ChallengeMax)

Record(s, met, passed) ==
  /\ counters' = s
  /\ asked' = Noted(asked, met)
  /\ granted' = Noted(granted, passed)

Own(l, ip) == <<"free", l, ip>>     \* which budget a request is charged to

\* rateLimiterMiddleware() on a request that is not a challenge.
Limit(ip) ==
  LET s == Counted(counters, TierKey(ip)) IN
  /\ Record(s, {Own("", ip)}, IF PassesTier(ip) THEN {Own("", ip)} ELSE {})
  /\ forgotten' = forgotten \cup Evicted(counters, s)

\* ... and on a challenge.
LimitChallenge(ip) ==
  LET s == Counted(counters, TierKey(ip))
      t == Counted(s, ChallengeKey(ip))
      both == {Own("", ip), Own("authchallenge", ip)} IN
  \/ /\ ~PassesTier(ip)
     /\ Limit(ip)
  \/ /\ PassesTier(ip)
     /\ Record(t, both, IF PassesChallenge(ip) THEN both ELSE {Own("", ip)})
     /\ forgotten' = forgotten \cup Evicted(counters, s) \cup Evicted(s, t)

\* PATCH and reset of the configuration: only the known keys are taken over.
MutableKeys == {"rateLimitPerMinute", "maintenanceMode"}
DefaultConfig == [rateLimitPerMinute |-> NoCeiling, maintenanceMode |-> FALSE]
Patched(values) ==
  [k \in MutableKeys |-> IF k \in DOMAIN values THEN values[k] ELSE config[k]]

LimiterInit ==
  /\ counters = [k \in {} |-> k]
  /\ config = DefaultConfig
  /\ asked = NoHistory
  /\ granted = NoHistory
  /\ forgotten = {}

\* All of it is memory of the process.
LimiterRestart ==
  /\ counters' = [k \in {} |-> k]
  /\ config' = DefaultConfig
  /\ asked' = NoHistory
  /\ granted' = NoHistory
  /\ forgotten' = {}

LimiterTick ==
  /\ asked' = Aged(asked)
  /\ granted' = Aged(granted)
  /\ UNCHANGED <<counters, config, forgotten>>

-----------------------------------------------------------------------------
\* The Map holds no more counters than its cap, whatever keys come
\* (rateLimiter.js:40-86).
CountersAreCapped == Cardinality(DOMAIN counters) <= MaxTrackedKeys

\* The store stays within its cap, and a counter in it holds exactly the requests
\* of its own limiter and client since its window began, refused ones included, as
\* long as no eviction has interfered: two limiters on one path do not charge each
\* other's budget (rateLimiter.js:131-135, app.js:151-170).
CountersCountTheirWindow ==
  /\ CountersAreCapped
  /\ \A k \in Unexpired(counters) \ forgotten :
       counters[k].count = asked[k][clock - (counters[k].resetAt - Window)]

\* Within the length of a window a client always gets less than two budgets,
\* wherever its windows begin and however the ceiling moves, unless its counter
\* was evicted.  Windows are fixed, not rolling: around a border it may get all
\* but one of two (rateLimiter.js:185-191).
LessThanTwoBudgets ==
  \A ip \in Ips : \A l \in Limiters :
    Own(l, ip) \notin forgotten =>
      granted[Own(l, ip)][Window - 1]
        < 2 * (IF l = "" THEN TierMax["free"] ELSE ChallengeMax)

=============================================================================
