------------------------------ MODULE Analytics ------------------------------
(***************************************************************************)
(* The cached aggregations of src/src/routes/analytics.js                   *)
(* (sendAggregatedResponse) over the readings store: each entry of the     *)
(* cache is stamped with the size of the store it was computed from, and   *)
(* is served while the store has that size.                                *)
(*                                                                         *)
(* A request gives the process away at two awaits, the get() and the set() *)
(* of the cache.  Commands are answered in the order in which they were    *)
(* sent.  What an aggregation is computed from, a set of readings, stands  *)
(* for its value; the query shapes of one cache key differ in nothing but   *)
(* the range of days.                                                      *)
(***************************************************************************)
EXTENDS ReadingStore, Sequences

CONSTANTS
  Windows,   \* ranges <<startDate, endDate>> that are asked for
  Clients,   \* those with a request of their own at a time
  Shared,    \* whether the cache (Redis) outlives the process
  Nothing    \* no entry

ASSUME AnalyticsAssumption ==
  /\ Windows \subseteq Days \X Days /\ Shared \in BOOLEAN
  /\ Nothing \notin [_storeSize : Nat, source : SUBSET Reading]

VARIABLES
  cache,     \* the entry of each window's key
  commands,  \* requests whose command was sent and not answered
  pc,        \* "idle", "get", "got" (the reply is there) or "set"
  window,    \* what a request asks for
  entry      \* what it was given by the cache, or gives to it

requestVars == <<commands, pc, window, entry>>
analyticsVars == <<storeVars, cache, requestVars>>

Entry == [_storeSize : 0..MaxReadings, source : SUBSET Reading]

(* The body of an entry computed from the readings in source. *)
Body(w, source) == GetReadings(source, w[1], w[2])

-----------------------------------------------------------------------------
Request(r, w) ==
  /\ pc[r] = "idle"
  /\ pc' = [pc EXCEPT ![r] = "get"] /\ window' = [window EXCEPT ![r] = w]
  /\ commands' = Append(commands, r)
  /\ UNCHANGED <<storeVars, cache, entry>>

(* Mutant of CacheReplies: the stamp is taken when the entry is stored. *)
CacheRepliesStampsLate ==
  /\ commands # << >> /\ commands' = Tail(commands)
  /\ LET r == Head(commands)
     IN  \/ /\ pc[r] = "get" /\ pc' = [pc EXCEPT ![r] = "got"]
            /\ entry' = [entry EXCEPT ![r] = cache[window[r]]]
            /\ UNCHANGED cache
         \/ /\ pc[r] = "set" /\ pc' = [pc EXCEPT ![r] = "idle"]
            /\ cache' = [cache EXCEPT ![window[r]] =
                           [entry[r] EXCEPT !._storeSize = Cardinality(readings)]]
            /\ entry' = [entry EXCEPT ![r] = Nothing]
  /\ UNCHANGED <<storeVars, window>>

(* The cache answers its oldest command.  A get() that fails is a miss, a   *)
(* set() that fails is ignored.                                            *)
CacheReplies ==
  /\ commands # << >> /\ commands' = Tail(commands)
  /\ LET r == Head(commands)
     IN  \/ /\ pc[r] = "get" /\ pc' = [pc EXCEPT ![r] = "got"]
            /\ \E found \in {cache[window[r]], Nothing} : entry' = [entry EXCEPT ![r] = found]
            /\ UNCHANGED cache
         \/ /\ pc[r] = "set" /\ pc' = [pc EXCEPT ![r] = "idle"]
            /\ \E kept \in {cache[window[r]], entry[r]} :
                 cache' = [cache EXCEPT ![window[r]] = kept]
            /\ entry' = [entry EXCEPT ![r] = Nothing]
  /\ UNCHANGED <<storeVars, window>>

IsHit(r) == entry[r] # Nothing /\ entry[r]._storeSize = Cardinality(readings)

(* After the await of get(): a hit is served; a miss is computed, stamped    *)
(* and sent to the cache in one go, and served after that.                 *)
Respond(r) ==
  /\ pc[r] = "got"
  /\ \/ /\ IsHit(r)
        /\ pc' = [pc EXCEPT ![r] = "idle"] /\ entry' = [entry EXCEPT ![r] = Nothing]
        /\ UNCHANGED commands
     \/ /\ ~ IsHit(r)
        /\ pc' = [pc EXCEPT ![r] = "set"]
        /\ entry' = [entry EXCEPT ![r] =
                       [_storeSize |-> Cardinality(readings), source |-> readings]]
        /\ commands' = Append(commands, r)
  /\ UNCHANGED <<storeVars, cache, window>>

(* The TTL of an entry runs out, or it is flushed. *)
Expire(w) ==
  /\ cache[w] # Nothing /\ cache' = [cache EXCEPT ![w] = Nothing]
  /\ UNCHANGED <<storeVars, requestVars>>

Idle ==
  /\ commands' = << >>
  /\ pc' = [r \in Clients |-> "idle"] /\ entry' = [r \in Clients |-> Nothing]
  /\ UNCHANGED window

Restart ==
  /\ RestartStore /\ Idle
  /\ cache' = IF Shared THEN cache ELSE [w \in Windows |-> Nothing]

-----------------------------------------------------------------------------
AnalyticsInit ==
  /\ StoreInit
  /\ cache = [w \in Windows |-> Nothing]
  /\ commands = << >> /\ pc = [r \in Clients |-> "idle"]
  /\ window \in [Clients -> Windows] /\ entry = [r \in Clients |-> Nothing]

AnalyticsNext ==
  \/ StoreStep /\ UNCHANGED <<cache, requestVars>>
  \/ \E r \in Clients : Respond(r) \/ \E w \in Windows : Request(r, w)
  \/ CacheReplies \/ Restart
  \/ \E w \in Windows : Expire(w)

AnalyticsSpec == AnalyticsInit /\ [][AnalyticsNext]_analyticsVars

-----------------------------------------------------------------------------
(* Properties *)

(* Every variable stays within the values the code can give it. *)
TypeOK ==
  /\ StoreTypeOK
  /\ cache \in [Windows -> Entry \cup {Nothing}]
  /\ commands \in Seq(Clients)
  /\ pc \in [Clients -> {"idle", "get", "got", "set"}]
  /\ window \in [Clients -> Windows]
  /\ entry \in [Clients -> Entry \cup {Nothing}]

Served(r) == pc[r] = "got" /\ pc'[r] = "idle" /\ boot' = boot

(* While the store only grows, the size of the store tells every change:    *)
(* whatever is ingested, answered or stored between the steps of the       *)
(* requests, a hit whose readings are all still there misses nothing.      *)
HitsOfAGrowingStoreAreFresh ==
  [][\A r \in Clients : Served(r) /\ entry[r].source \subseteq readings =>
       Body(window[r], entry[r].source) = Body(window[r], readings)]_analyticsVars

(* analytics.js:74-78: a stamp that matches "gives correctness (never serves *)
(* aggregations missing fresh data)": whatever a query would count now, a    *)
(* hit counts.  But at its cap, after a sweep, and after a restart the store *)
(* may have the size again that it had, and other readings.                *)
HitsMissNoFreshData ==
  [][\A r \in Clients : Served(r) =>
       Body(window[r], readings) \subseteq Body(window[r], entry[r].source)]_analyticsVars
=============================================================================
