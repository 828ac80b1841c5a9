--------------------------- MODULE ReadingsProofs ---------------------------
(***************************************************************************)
(* Proofs about the readers of the readings store: the store and its cached *)
(* aggregations (Analytics) and the exports and aggregated answers          *)
(* (Exports), for every cap, batch size, retention, calendar, set of        *)
(* windows and of requests.                                                *)
(*                                                                         *)
(* The store is the most recent window of what came in, because cutting off *)
(* the readings of the lowest ranks leaves a full store (OldestFacts).      *)
(* A hit on a store that only grew is fresh, because a stamp is the number  *)
(* of readings its entry was computed from, whatever happened since.        *)
(*                                                                         *)
(* A file is a snapshot because a stream keeps one thing true at each turn  *)
(* (ExportsInv): what is written and what is still to come are the rows of  *)
(* the request.  What those rows say is then a matter of data, and is       *)
(* proved in layers: induction over sets, the order of Ordered(), the       *)
(* calendar, the buckets, sums, and the bounds of aggregated values.        *)
(***************************************************************************)
EXTENDS Analytics, Exports, FiniteSetTheorems, TLAPS

-----------------------------------------------------------------------------
(* The store and the cached aggregations *)

OlderIn(R, r) == {s \in R : Older(s, r)}
NewerIn(R, r) == {s \in R : Older(r, s)}

(* The inductive invariant. *)
StoreInv ==
  /\ StoreTypeOK
  /\ IsFiniteSet(ingested) /\ Cardinality(ingested) <= nextId - 1
  /\ StoreIsTheRecentWindow

Stamped(e) ==
  /\ e \in Entry /\ IsFiniteSet(e.source)
  /\ e._storeSize = Cardinality(e.source)

EntriesInv ==
  /\ cache \in [Windows -> Entry \cup {Nothing}]
  /\ \A w \in Windows : cache[w] # Nothing => Stamped(cache[w])
  /\ entry \in [Clients -> Entry \cup {Nothing}]
  /\ \A r \in Clients : entry[r] # Nothing => Stamped(entry[r])

RequestsInv ==
  /\ commands \in Seq(Clients)
  /\ pc \in [Clients -> {"idle", "get", "got", "set"}]
  /\ window \in [Clients -> Windows]
  /\ \A r \in Clients : pc[r] = "set" => entry[r] # Nothing

IndInv == StoreInv /\ EntriesInv /\ RequestsInv

-----------------------------------------------------------------------------
(* Readings in the order of the store *)

LEMMA OlderIsTotal ==
  ASSUME NEW r \in Reading, NEW s \in Reading, r.boot = s.boot, r # s
  PROVE  Older(r, s) \/ Older(s, r)
<1>1. r.id # s.id \/ r.day # s.day
  BY DEF Reading
<1>2. r.id \in Int /\ s.id \in Int /\ r.day \in Int /\ s.day \in Int
  BY StoreAssumption DEF Reading, Days, StoreAssumption
<1> QED
  BY <1>1, <1>2 DEF Older

LEMMA OlderIsStrict ==
  ASSUME NEW r \in Reading, NEW s \in Reading, NEW t \in Reading
  PROVE  ~ Older(r, r) /\ (Older(r, s) /\ Older(s, t) => Older(r, t))
<1>1. /\ r.id \in Int /\ s.id \in Int /\ t.id \in Int
      /\ r.day \in Int /\ s.day \in Int /\ t.day \in Int
  BY StoreAssumption DEF Reading, Days, StoreAssumption
<1> QED
  BY <1>1 DEF Older

(* The ranks of a finite set of readings of one process. *)
LEMMA RanksGrow ==
  ASSUME NEW R \in SUBSET Reading, IsFiniteSet(R),
         NEW r \in R, NEW s \in R, Older(r, s)
  PROVE  Cardinality(OlderIn(R, r)) < Cardinality(OlderIn(R, s))
<1>1. OlderIn(R, r) \in SUBSET OlderIn(R, s) /\ OlderIn(R, s) \in SUBSET R
  BY OlderIsStrict DEF OlderIn
<1>2. r \in OlderIn(R, s) /\ r \notin OlderIn(R, r)
  BY OlderIsStrict DEF OlderIn
<1>3. IsFiniteSet(OlderIn(R, s))
  BY <1>1, FS_Subset
<1>4. IsFiniteSet(OlderIn(R, r)) /\ Cardinality(OlderIn(R, r)) <= Cardinality(OlderIn(R, s))
      /\ OlderIn(R, r) # OlderIn(R, s)
  BY <1>1, <1>2, <1>3, FS_Subset
<1>5. Cardinality(OlderIn(R, r)) # Cardinality(OlderIn(R, s))
  BY <1>1, <1>3, <1>4, FS_Subset
<1> QED
  BY <1>3, <1>4, <1>5, FS_CardinalityType

LEMMA RankSplitsTheStore ==
  ASSUME NEW R \in SUBSET Reading, IsFiniteSet(R), NEW r \in R,
         \A s \in R : s.boot = r.boot
  PROVE  /\ Cardinality(OlderIn(R, r)) \in Nat /\ Cardinality(NewerIn(R, r)) \in Nat
         /\ Cardinality(OlderIn(R, r)) + 1 + Cardinality(NewerIn(R, r)) = Cardinality(R)
<1> DEFINE upTo == OlderIn(R, r) \cup {r}
<1>1. OlderIn(R, r) \in SUBSET R /\ NewerIn(R, r) \in SUBSET R
  BY DEF OlderIn, NewerIn
<1>2. IsFiniteSet(OlderIn(R, r)) /\ IsFiniteSet(NewerIn(R, r))
  BY <1>1, FS_Subset
<1>3. r \notin OlderIn(R, r) /\ r \notin NewerIn(R, r)
  BY OlderIsStrict DEF OlderIn, NewerIn
<1>4. IsFiniteSet(upTo) /\ Cardinality(upTo) = Cardinality(OlderIn(R, r)) + 1
  BY <1>2, <1>3, FS_AddElement
<1>5. upTo \cap NewerIn(R, r) = {}
  BY <1>3, OlderIsStrict DEF OlderIn, NewerIn
<1>6. upTo \cup NewerIn(R, r) = R
  BY OlderIsTotal DEF OlderIn, NewerIn
<1>7. Cardinality(R) = Cardinality(upTo) + Cardinality(NewerIn(R, r)) - Cardinality({})
  BY <1>2, <1>4, <1>5, <1>6, FS_Union
<1> QED
  BY <1>2, <1>4, <1>7, FS_CardinalityType, FS_EmptySet

(* What the eviction of addReadings() leaves: no more than the cap, and for  *)
(* each reading it drops a whole store of newer ones.                      *)
LEMMA OldestFacts ==
  ASSUME NEW R \in SUBSET Reading, IsFiniteSet(R),
         \A r, s \in R : r.boot = s.boot
  PROVE  /\ Cardinality(R \ Oldest(R)) <= MaxTotalReadings
         /\ \A r \in Oldest(R) : Cardinality(NewerIn(R, r)) >= MaxTotalReadings
<1> DEFINE kept == R \ Oldest(R)
           size == Cardinality(R)
           rank == [r \in kept |-> Cardinality(OlderIn(R, r))]
           ranks == (size - MaxTotalReadings)..(size - 1)
<1>1. size \in Nat /\ MaxTotalReadings \in Nat
  BY FS_CardinalityType, StoreAssumption DEF StoreAssumption
<1>2. \A r \in R : r \in Oldest(R) <=> Cardinality(OlderIn(R, r)) < size - MaxTotalReadings
  BY DEF Oldest, OlderIn
<1>3. \A r \in R : /\ Cardinality(OlderIn(R, r)) \in Nat /\ Cardinality(NewerIn(R, r)) \in Nat
                   /\ Cardinality(OlderIn(R, r)) + 1 + Cardinality(NewerIn(R, r)) = size
  BY RankSplitsTheStore
<1>4. \A r \in Oldest(R) : Cardinality(NewerIn(R, r)) >= MaxTotalReadings
  BY <1>1, <1>2, <1>3 DEF Oldest
<1>5. rank \in [kept -> ranks]
  BY <1>1, <1>2, <1>3
<1>6. \A r, s \in kept : rank[r] = rank[s] => r = s
  <2> SUFFICES ASSUME NEW r \in kept, NEW s \in kept, rank[r] = rank[s], r # s PROVE FALSE
    OBVIOUS
  <2>1. Older(r, s) \/ Older(s, r)
    BY OlderIsTotal
  <2>2. rank[r] < rank[s] \/ rank[s] < rank[r]
    BY <2>1, RanksGrow
  <2> QED
    BY <2>2, <1>3
<1>7. rank \in Injection(kept, ranks)
  BY <1>5, <1>6 DEF Injection, IsInjective
<1>8. IsFiniteSet(ranks)
      /\ Cardinality(ranks) = IF size - MaxTotalReadings > size - 1 THEN 0 ELSE MaxTotalReadings
  <2>1. size - MaxTotalReadings \in Int /\ size - 1 \in Int
    BY <1>1
  <2>2. IsFiniteSet(ranks) /\ Cardinality(ranks) =
          IF size - MaxTotalReadings > size - 1 THEN 0
          ELSE (size - 1) - (size - MaxTotalReadings) + 1
    BY <2>1, FS_Interval
  <2> QED
    BY <2>2, <1>1
<1>9. Cardinality(kept) <= Cardinality(ranks)
  BY <1>7, <1>8, FS_Injection
<1>10. Cardinality(kept) \in Nat
  BY FS_Difference, FS_CardinalityType
<1> QED
  BY <1>1, <1>4, <1>8, <1>9, <1>10

-----------------------------------------------------------------------------
(* The store *)

LEMMA CountsAreNat == MaxReadings \in Nat /\ MaxDay \in Nat /\ MaxBoots \in Nat
BY StoreAssumption DEF StoreAssumption

LEMMA InitStoreInv == StoreInit => StoreInv
<1> SUFFICES ASSUME StoreInit PROVE StoreInv
  OBVIOUS
<1> QED
  BY CountsAreNat, FS_EmptySet, StoreAssumption
     DEF StoreInit, StoreInv, StoreTypeOK, StoreIsTheRecentWindow, Days, StoreAssumption

(* What a batch adds is new, finite, and no more than the ids it uses up. *)
LEMMA BatchFacts ==
  ASSUME StoreInv, NEW n \in 1..(MaxReadings + 1 - nextId), NEW days \in [1..n -> 0..today],
         NEW stored,
         stored = {[id |-> nextId + i - 1, day |-> days[i], boot |-> boot] : i \in DOMAIN days}
  PROVE  /\ stored \subseteq Reading /\ \A r \in stored : r.boot = boot /\ r.id < nextId + n
         /\ IsFiniteSet(stored) /\ Cardinality(stored) <= n
         /\ n \in Nat /\ nextId + n \in 1..(MaxReadings + 1)
<1> DEFINE make == [i \in 1..n |-> [id |-> nextId + i - 1, day |-> days[i], boot |-> boot]]
<1>1. /\ nextId \in 1..(MaxReadings + 1) /\ MaxReadings \in Nat
      /\ today \in 0..MaxDay /\ boot \in 0..MaxBoots /\ MaxDay \in Nat
  BY CountsAreNat DEF StoreInv, StoreTypeOK, Days
<1>2. n \in Nat /\ n >= 1 /\ nextId + n \in 1..(MaxReadings + 1)
  BY <1>1
<1>3. \A i \in 1..n : /\ nextId + i - 1 \in 1..MaxReadings /\ nextId + i - 1 < nextId + n
                      /\ days[i] \in 0..MaxDay
  BY <1>1, <1>2
<1>4. stored = {make[i] : i \in 1..n}
  OBVIOUS
<1>5. stored \subseteq Reading /\ \A r \in stored : r.boot = boot /\ r.id < nextId + n
  BY <1>1, <1>3, <1>4 DEF Reading, Days
<1>6. make \in Surjection(1..n, stored)
  BY <1>4 DEF Surjection
<1>7. IsFiniteSet(1..n) /\ Cardinality(1..n) = n
  <2>1. Cardinality(1..n) = (IF 1 > n THEN 0 ELSE n - 1 + 1) /\ IsFiniteSet(1..n)
    BY <1>2, FS_Interval
  <2> QED
    BY <2>1, <1>2
<1>8. IsFiniteSet(stored) /\ Cardinality(stored) <= n
  BY <1>6, <1>7, FS_Surjection
<1> QED
  BY <1>2, <1>5, <1>8

LEMMA NewerInMore ==
  ASSUME NEW S, NEW T, IsFiniteSet(T), S \subseteq T, NEW r,
         Cardinality({s \in S : Older(r, s)}) >= MaxTotalReadings
  PROVE  Cardinality({s \in T : Older(r, s)}) >= MaxTotalReadings
<1> DEFINE inS == {s \in S : Older(r, s)}
           inT == {s \in T : Older(r, s)}
<1>1. inT \in SUBSET T /\ inS \in SUBSET inT
  OBVIOUS
<1>2. IsFiniteSet(inT)
  BY <1>1, FS_Subset
<1>3. IsFiniteSet(inS) /\ Cardinality(inS) <= Cardinality(inT)
  BY <1>1, <1>2, FS_Subset
<1>4. Cardinality(inS) \in Nat /\ Cardinality(inT) \in Nat
  BY <1>2, <1>3, FS_CardinalityType
<1> QED
  BY <1>3, <1>4, StoreAssumption DEF StoreAssumption

LEMMA IngestKeepsStoreInv == StoreInv /\ Ingest => StoreInv'
<1> SUFFICES ASSUME StoreInv, NEW n \in 1..(MaxReadings + 1 - nextId),
                    NEW days \in [1..n -> 0..today], AddReadings(days)
             PROVE  StoreInv'
  BY DEF Ingest
<1> DEFINE stored == {[id |-> nextId + i - 1, day |-> days[i], boot |-> boot] : i \in DOMAIN days}
           all == readings \cup stored
<1>1. /\ readings' = all \ Oldest(all) /\ ingested' = ingested \cup stored
      /\ today' = today /\ boot' = boot
  BY DEF AddReadings
<1>2. DOMAIN days = 1..n
  OBVIOUS
<1>3. nextId' = nextId + n
  <2>1. n \in Nat
    BY CountsAreNat DEF StoreInv, StoreTypeOK
  <2>2. Cardinality(1..n) = n
    <3>1. Cardinality(1..n) = IF 1 > n THEN 0 ELSE n - 1 + 1
      BY <2>1, FS_Interval
    <3> QED
      BY <3>1, <2>1
  <2> QED
    BY <2>2, <1>2 DEF AddReadings
<1>4. /\ stored \subseteq Reading /\ \A r \in stored : r.boot = boot /\ r.id < nextId + n
      /\ IsFiniteSet(stored) /\ Cardinality(stored) <= n
      /\ n \in Nat /\ nextId + n \in 1..(MaxReadings + 1)
  BY BatchFacts
<1>5. /\ nextId \in Nat /\ IsFiniteSet(ingested) /\ Cardinality(ingested) <= nextId - 1
      /\ readings \subseteq ingested /\ ingested \subseteq Reading
      /\ \A r \in ingested : r.id < nextId /\ r.boot = boot
  BY CountsAreNat DEF StoreInv, StoreTypeOK
<1>6. IsFiniteSet(ingested') /\ Cardinality(ingested') <= nextId' - 1
  <2>1. /\ IsFiniteSet(ingested \cup stored) /\ IsFiniteSet(ingested \cap stored)
        /\ Cardinality(ingested \cup stored) =
             Cardinality(ingested) + Cardinality(stored) - Cardinality(ingested \cap stored)
    BY <1>4, <1>5, FS_Union, FS_Intersection
  <2>2. /\ Cardinality(ingested) \in Nat /\ Cardinality(stored) \in Nat
        /\ Cardinality(ingested \cap stored) \in Nat
    BY <1>4, <1>5, <2>1, FS_CardinalityType
  <2> QED
    BY <1>1, <1>3, <1>4, <1>5, <2>1, <2>2
<1>7. StoreTypeOK'
  <2>1. readings' \subseteq ingested' /\ ingested' \subseteq Reading
    BY <1>1, <1>4, <1>5
  <2>2. \A r \in ingested' : r.id < nextId' /\ r.boot = boot'
    <3>1. \A r \in ingested : r.id \in Int
      BY <1>5 DEF Reading
    <3> QED
      BY <1>1, <1>3, <1>4, <1>5, <3>1
  <2>3. today' \in Days /\ boot' \in 0..MaxBoots
    BY <1>1 DEF StoreInv, StoreTypeOK
  <2>4. nextId' \in 1..(MaxReadings + 1) /\ nextId' > 1
    BY <1>3, <1>4 DEF StoreInv, StoreTypeOK
  <2> QED
    BY <2>1, <2>2, <2>3, <2>4 DEF StoreTypeOK
<1>8. all \in SUBSET Reading /\ IsFiniteSet(all) /\ all \subseteq ingested'
      /\ \A r, s \in all : r.boot = s.boot
  <2>1. all \in SUBSET ingested' /\ all \in SUBSET Reading
    BY <1>1, <1>4, <1>5
  <2>2. \A r, s \in all : r.boot = s.boot
    BY <1>4, <1>5
  <2>3. IsFiniteSet(all)
    BY <1>6, <2>1, FS_Subset
  <2> QED
    BY <2>1, <2>2, <2>3
<1>9. /\ Cardinality(all \ Oldest(all)) <= MaxTotalReadings
      /\ \A r \in Oldest(all) : Cardinality(NewerIn(all, r)) >= MaxTotalReadings
  BY <1>8, OldestFacts
<1>10. ASSUME NEW r \in ingested' \ readings'
       PROVE  \/ r.day < today - Retention
              \/ Cardinality({s \in ingested' : Older(r, s)}) >= MaxTotalReadings
  <2>1. CASE r \in Oldest(all)
    BY <2>1, <1>6, <1>8, <1>9, NewerInMore DEF NewerIn
  <2>2. CASE r \notin Oldest(all)
    <3>1. r \in ingested \ readings
      BY <1>1, <2>2
    <3>2. \/ r.day < today - Retention
          \/ Cardinality({s \in ingested : Older(r, s)}) >= MaxTotalReadings
      BY <3>1 DEF StoreInv, StoreIsTheRecentWindow
    <3>3. ingested \subseteq ingested'
      BY <1>1
    <3>4. CASE Cardinality({s \in ingested : Older(r, s)}) >= MaxTotalReadings
      BY <1>6, <3>3, <3>4, NewerInMore
    <3> QED
      BY <3>2, <3>4
  <2> QED
    BY <2>1, <2>2
<1>11. StoreIsTheRecentWindow'
  BY <1>1, <1>9, <1>10 DEF StoreIsTheRecentWindow
<1> QED
  BY <1>6, <1>7, <1>11 DEF StoreInv

LEMMA PruneKeepsStoreInv == StoreInv /\ PruneOldReadings => StoreInv'
<1> SUFFICES ASSUME StoreInv, PruneOldReadings PROVE StoreInv'
  OBVIOUS
<1>1. /\ readings' = {r \in readings : r.day >= today - Retention}
      /\ today' = today /\ boot' = boot /\ nextId' = nextId /\ ingested' = ingested
  BY DEF PruneOldReadings
<1>2. readings \subseteq ingested /\ ingested \subseteq Reading /\ IsFiniteSet(ingested)
      /\ today \in Int /\ Retention \in Int
  BY CountsAreNat, StoreAssumption DEF StoreInv, StoreTypeOK, Days, StoreAssumption
<1>3. Cardinality(readings') <= MaxTotalReadings
  <2>1. IsFiniteSet(readings) /\ readings' \in SUBSET readings
    BY <1>1, <1>2, FS_Subset
  <2>2. IsFiniteSet(readings') /\ Cardinality(readings') <= Cardinality(readings)
    BY <2>1, FS_Subset
  <2>3. Cardinality(readings') \in Nat /\ Cardinality(readings) \in Nat
    BY <2>1, <2>2, FS_CardinalityType
  <2> QED
    BY <2>2, <2>3, StoreAssumption DEF StoreInv, StoreIsTheRecentWindow, StoreAssumption
<1>4. \A r \in ingested' \ readings' :
        \/ r.day < today' - Retention
        \/ Cardinality({s \in ingested' : Older(r, s)}) >= MaxTotalReadings
  <2> SUFFICES ASSUME NEW r \in ingested \ readings', ~ (r.day < today - Retention)
               PROVE  Cardinality({s \in ingested : Older(r, s)}) >= MaxTotalReadings
    BY <1>1
  <2>1. r.day \in Int
    BY <1>2, CountsAreNat DEF Reading, Days
  <2>2. r \in ingested \ readings
    BY <1>1, <1>2, <2>1
  <2> QED
    BY <2>2 DEF StoreInv, StoreIsTheRecentWindow
<1> QED
  BY <1>1, <1>3, <1>4 DEF StoreInv, StoreTypeOK, StoreIsTheRecentWindow

LEMMA NextDayKeepsStoreInv == StoreInv /\ NextDay => StoreInv'
<1> SUFFICES ASSUME StoreInv, NextDay PROVE StoreInv'
  OBVIOUS
<1>1. /\ today' = today + 1 /\ today < MaxDay /\ boot' = boot
      /\ readings' = readings /\ nextId' = nextId /\ ingested' = ingested
  BY DEF NextDay
<1>2. today \in 0..MaxDay /\ Retention \in Int /\ MaxDay \in Nat /\ ingested \subseteq Reading
  BY CountsAreNat, StoreAssumption DEF StoreInv, StoreTypeOK, Days, StoreAssumption
<1>3. today' \in Days
  BY <1>1, <1>2 DEF Days
<1>4. \A r \in ingested : r.day < today - Retention => r.day < today' - Retention
  BY <1>1, <1>2 DEF Reading, Days
<1> QED
  BY <1>1, <1>3, <1>4 DEF StoreInv, StoreTypeOK, StoreIsTheRecentWindow

LEMMA RestartKeepsStoreInv == StoreInv /\ RestartStore => StoreInv'
<1> SUFFICES ASSUME StoreInv, RestartStore PROVE StoreInv'
  OBVIOUS
<1>1. /\ boot < MaxBoots /\ boot' = boot + 1 /\ readings' = {} /\ nextId' = 1
      /\ ingested' = {} /\ today' = today
  BY DEF RestartStore
<1>2. boot \in 0..MaxBoots
  BY DEF StoreInv, StoreTypeOK
<1>3. boot' \in 0..MaxBoots
  BY <1>1, <1>2, CountsAreNat
<1> QED
  BY <1>1, <1>3, CountsAreNat, FS_EmptySet, StoreAssumption
     DEF StoreInv, StoreTypeOK, StoreIsTheRecentWindow, StoreAssumption

LEMMA StoreKeepsStoreInv == StoreInv /\ UNCHANGED storeVars => StoreInv'
BY DEF StoreInv, storeVars, StoreTypeOK, StoreIsTheRecentWindow

-----------------------------------------------------------------------------
(* The requests and the cache *)

LEMMA ReadingsAreCounted ==
  ASSUME StoreInv
  PROVE  /\ IsFiniteSet(readings) /\ readings \in SUBSET Reading
         /\ Cardinality(readings) \in 0..MaxReadings
<1>1. /\ readings \in SUBSET ingested /\ ingested \subseteq Reading /\ IsFiniteSet(ingested)
      /\ Cardinality(ingested) <= nextId - 1 /\ nextId \in 1..(MaxReadings + 1)
  BY DEF StoreInv, StoreTypeOK
<1>2. IsFiniteSet(readings) /\ Cardinality(readings) <= Cardinality(ingested)
  BY <1>1, FS_Subset
<1>3. Cardinality(readings) \in Nat /\ Cardinality(ingested) \in Nat
  BY <1>1, <1>2, FS_CardinalityType
<1> QED
  BY <1>1, <1>2, <1>3, CountsAreNat

LEMMA NewEntryIsStamped ==
  ASSUME StoreInv
  PROVE  Stamped([_storeSize |-> Cardinality(readings), source |-> readings])
BY ReadingsAreCounted DEF Stamped, Entry

LEMMA NothingIsNoEntry == Nothing \notin Entry
BY AnalyticsAssumption, CountsAreNat DEF AnalyticsAssumption, Entry

LEMMA InitIndInv == AnalyticsInit => IndInv
<1> SUFFICES ASSUME AnalyticsInit PROVE IndInv
  OBVIOUS
<1>1. StoreInv
  BY InitStoreInv DEF AnalyticsInit
<1>2. EntriesInv
  BY DEF AnalyticsInit, EntriesInv
<1>3. RequestsInv
  BY DEF AnalyticsInit, RequestsInv
<1> QED
  BY <1>1, <1>2, <1>3 DEF IndInv

LEMMA RequestKeepsIndInv ==
  ASSUME IndInv, NEW r \in Clients, NEW w \in Windows, Request(r, w)
  PROVE  IndInv'
<1>1. StoreInv' /\ EntriesInv'
  BY StoreKeepsStoreInv DEF Request, IndInv, EntriesInv, Stamped
<1>2. RequestsInv'
  <2>1. commands' \in Seq(Clients)
    BY DEF Request, IndInv, RequestsInv
  <2>2. /\ pc' \in [Clients -> {"idle", "get", "got", "set"}]
        /\ window' \in [Clients -> Windows]
        /\ \A q \in Clients : pc'[q] = "set" => entry'[q] # Nothing
    BY DEF Request, IndInv, RequestsInv
  <2> QED
    BY <2>1, <2>2 DEF RequestsInv
<1> QED
  BY <1>1, <1>2 DEF IndInv

LEMMA CacheRepliesKeepsIndInv == IndInv /\ CacheReplies => IndInv'
<1> SUFFICES ASSUME IndInv, CacheReplies PROVE IndInv'
  OBVIOUS
<1> DEFINE r == Head(commands)
<1>1. StoreInv'
  BY StoreKeepsStoreInv DEF CacheReplies, IndInv
<1>2. r \in Clients /\ commands' \in Seq(Clients) /\ window' = window
  BY DEF CacheReplies, IndInv, RequestsInv
<1>3. CASE pc[r] = "get"
  <2>1. /\ pc' = [pc EXCEPT ![r] = "got"] /\ cache' = cache
        /\ \E found \in {cache[window[r]], Nothing} : entry' = [entry EXCEPT ![r] = found]
    BY <1>3 DEF CacheReplies
  <2>2. EntriesInv'
    BY <1>2, <2>1 DEF IndInv, EntriesInv, RequestsInv, Stamped
  <2>3. RequestsInv'
    BY <1>2, <2>1 DEF IndInv, RequestsInv
  <2> QED
    BY <1>1, <2>2, <2>3 DEF IndInv
<1>4. CASE pc[r] = "set"
  <2>1. /\ pc' = [pc EXCEPT ![r] = "idle"] /\ entry' = [entry EXCEPT ![r] = Nothing]
        /\ \E kept \in {cache[window[r]], entry[r]} : cache' = [cache EXCEPT ![window[r]] = kept]
    BY <1>4 DEF CacheReplies
  <2>2. EntriesInv'
    BY <1>2, <2>1 DEF IndInv, EntriesInv, RequestsInv, Stamped
  <2>3. RequestsInv'
    BY <1>2, <2>1 DEF IndInv, RequestsInv
  <2> QED
    BY <1>1, <2>2, <2>3 DEF IndInv
<1> QED
  BY <1>3, <1>4 DEF CacheReplies

LEMMA RespondKeepsIndInv ==
  ASSUME IndInv, NEW r \in Clients, Respond(r)
  PROVE  IndInv'
<1> DEFINE fresh == [_storeSize |-> Cardinality(readings), source |-> readings]
<1>1. StoreInv' /\ cache' = cache /\ window' = window
  BY StoreKeepsStoreInv DEF Respond, IndInv
<1>2. CASE IsHit(r)
  <2>1. /\ pc' = [pc EXCEPT ![r] = "idle"] /\ entry' = [entry EXCEPT ![r] = Nothing]
        /\ commands' = commands
    BY <1>2 DEF Respond
  <2>2. EntriesInv' /\ RequestsInv'
    BY <1>1, <2>1 DEF IndInv, EntriesInv, RequestsInv, Stamped
  <2> QED
    BY <1>1, <2>2 DEF IndInv
<1>3. CASE ~ IsHit(r)
  <2>1. /\ pc' = [pc EXCEPT ![r] = "set"] /\ entry' = [entry EXCEPT ![r] = fresh]
        /\ commands' = Append(commands, r)
    BY <1>3 DEF Respond
  <2>2. Stamped(fresh) /\ fresh \in Entry /\ fresh # Nothing
    BY NewEntryIsStamped, NothingIsNoEntry DEF IndInv, Stamped
  <2>3. EntriesInv'
    BY <1>1, <2>1, <2>2 DEF IndInv, EntriesInv, Stamped
  <2>4. RequestsInv'
    <3>1. commands' \in Seq(Clients)
      BY <2>1 DEF IndInv, RequestsInv
    <3>2. /\ pc' \in [Clients -> {"idle", "get", "got", "set"}]
          /\ \A q \in Clients : pc'[q] = "set" => entry'[q] # Nothing
      BY <2>1, <2>2 DEF IndInv, RequestsInv, EntriesInv
    <3> QED
      BY <1>1, <3>1, <3>2 DEF IndInv, RequestsInv
  <2> QED
    BY <1>1, <2>3, <2>4 DEF IndInv
<1> QED
  BY <1>2, <1>3

LEMMA ExpireKeepsIndInv ==
  ASSUME IndInv, NEW w \in Windows, Expire(w)
  PROVE  IndInv'
<1>1. StoreInv'
  BY StoreKeepsStoreInv DEF Expire, IndInv
<1>2. EntriesInv' /\ RequestsInv'
  BY DEF Expire, requestVars, IndInv, EntriesInv, RequestsInv, Stamped
<1> QED
  BY <1>1, <1>2 DEF IndInv

LEMMA RestartKeepsIndInv == IndInv /\ Restart => IndInv'
<1> SUFFICES ASSUME IndInv, Restart PROVE IndInv'
  OBVIOUS
<1>1. StoreInv'
  BY RestartKeepsStoreInv DEF Restart, IndInv
<1>2. EntriesInv'
  BY DEF Restart, Idle, IndInv, EntriesInv, Stamped
<1>3. RequestsInv'
  BY DEF Restart, Idle, IndInv, RequestsInv
<1> QED
  BY <1>1, <1>2, <1>3 DEF IndInv

LEMMA StoreStepKeepsIndInv == IndInv /\ StoreStep /\ UNCHANGED <<cache, requestVars>> => IndInv'
<1> SUFFICES ASSUME IndInv, StoreStep, UNCHANGED <<cache, requestVars>> PROVE IndInv'
  OBVIOUS
<1>1. StoreInv'
  BY IngestKeepsStoreInv, PruneKeepsStoreInv, NextDayKeepsStoreInv DEF StoreStep, IndInv
<1>2. EntriesInv' /\ RequestsInv'
  BY DEF requestVars, IndInv, EntriesInv, RequestsInv, Stamped
<1> QED
  BY <1>1, <1>2 DEF IndInv

LEMMA NextKeepsIndInv == IndInv /\ [AnalyticsNext]_analyticsVars => IndInv'
<1> SUFFICES ASSUME IndInv, [AnalyticsNext]_analyticsVars PROVE IndInv'
  OBVIOUS
<1>1. CASE UNCHANGED analyticsVars
  <2>1. StoreInv'
    BY <1>1, StoreKeepsStoreInv DEF analyticsVars, IndInv
  <2>2. EntriesInv' /\ RequestsInv'
    BY <1>1 DEF analyticsVars, requestVars, IndInv, EntriesInv, RequestsInv, Stamped
  <2> QED
    BY <2>1, <2>2 DEF IndInv
<1> QED
  BY <1>1, RequestKeepsIndInv, CacheRepliesKeepsIndInv, RespondKeepsIndInv, ExpireKeepsIndInv,
     RestartKeepsIndInv, StoreStepKeepsIndInv DEF AnalyticsNext

THEOREM IndInvHolds == AnalyticsSpec => []IndInv
BY InitIndInv, NextKeepsIndInv, PTL DEF AnalyticsSpec

-----------------------------------------------------------------------------
(* Every variable of the store, the cache and the requests stays within the *)
(* values that addReadings() and sendAggregatedResponse() can give it.      *)
THEOREM TypesAreKept == AnalyticsSpec => []TypeOK
<1>1. IndInv => TypeOK
  BY DEF IndInv, StoreInv, EntriesInv, RequestsInv, TypeOK
<1> QED
  BY <1>1, IndInvHolds, PTL

(* addReadings() and its cap, with historical batches of any order and       *)
(* sweeps in between, keep the most recent window, for every cap.            *)
THEOREM WindowIsKept == AnalyticsSpec => []StoreIsTheRecentWindow
<1>1. IndInv => StoreIsTheRecentWindow
  BY DEF IndInv, StoreInv
<1> QED
  BY <1>1, IndInvHolds, PTL

(* A hit of sendAggregatedResponse() whose readings are all still in the     *)
(* store misses nothing, for every number of concurrent requests.           *)
THEOREM GrowingHitsAreFresh == AnalyticsSpec => HitsOfAGrowingStoreAreFresh
<1> DEFINE Fresh(r) == Served(r) /\ entry[r].source \subseteq readings =>
                         Body(window[r], entry[r].source) = Body(window[r], readings)
<1>1. ASSUME IndInv, AnalyticsNext, NEW r \in Clients, Served(r), entry[r].source \subseteq readings
      PROVE  entry[r].source = readings
  <2>1. pc[r] = "got" /\ pc'[r] = "idle" /\ boot' = boot
    BY <1>1 DEF Served
  <2>2. ~ Restart
    <3>1. boot \in 0..MaxBoots
      BY <1>1 DEF IndInv, StoreInv, StoreTypeOK
    <3> QED
      BY <2>1, <3>1, CountsAreNat DEF Restart, RestartStore
  <2>3. pc' # pc
    BY <2>1
  <2>4. ~ (StoreStep /\ UNCHANGED <<cache, requestVars>>) /\ ~ \E w \in Windows : Expire(w)
    BY <2>3 DEF requestVars, Expire
  <2>5. ~ CacheReplies
    <3> SUFFICES ASSUME CacheReplies PROVE FALSE
      OBVIOUS
    <3>1. Head(commands) # r => pc'[r] = pc[r]
      BY <1>1 DEF CacheReplies, IndInv, RequestsInv
    <3>2. pc[Head(commands)] \in {"get", "set"}
      BY DEF CacheReplies
    <3> QED
      BY <2>1, <3>1, <3>2
  <2>6. PICK q \in Clients : Respond(q) \/ \E w \in Windows : Request(q, w)
    BY <1>1, <2>2, <2>4, <2>5 DEF AnalyticsNext
  <2>7. Respond(r) /\ IsHit(r)
    <3>1. pc \in [Clients -> {"idle", "get", "got", "set"}]
      BY <1>1 DEF IndInv, RequestsInv
    <3>2. ~ \E w \in Windows : Request(q, w)
      BY <2>1, <3>1 DEF Request
    <3>3. Respond(q)
      BY <2>6, <3>2
    <3>4. q = r
      BY <2>1, <3>1, <3>3 DEF Respond
    <3> QED
      BY <2>1, <3>1, <3>3, <3>4 DEF Respond
  <2>8. /\ entry[r]._storeSize = Cardinality(readings)
        /\ entry[r]._storeSize = Cardinality(entry[r].source)
    BY <1>1, <2>7 DEF IsHit, IndInv, EntriesInv, Stamped
  <2>9. IsFiniteSet(readings)
    BY <1>1, ReadingsAreCounted DEF IndInv
  <2> QED
    BY <1>1, <2>8, <2>9, FS_Subset
<1>2. IndInv /\ [AnalyticsNext]_analyticsVars => [\A r \in Clients : Fresh(r)]_analyticsVars
  BY <1>1
<1>3. AnalyticsSpec => [][\A r \in Clients : Fresh(r)]_analyticsVars
  BY <1>2, IndInvHolds, PTL DEF AnalyticsSpec
<1> QED
  BY <1>3 DEF HitsOfAGrowingStoreAreFresh

-----------------------------------------------------------------------------
(* Induction: the rules of the library take a formula, these take the set   *)
(* of all that it holds of.                                                *)

LEMMA LeastSubset ==
  ASSUME NEW S, IsFiniteSet(S), NEW B \in SUBSET SUBSET S, B # {}
  PROVE  \E T \in B : \A U \in B : U \subseteq T => U = T
<1>1. B \subseteq FiniteSubsetsOf(S)
  BY FS_FiniteSubsetsOfFinite
<1>2. IsWellFoundedOn(StrictSubsetOrdering(S), FiniteSubsetsOf(S))
  BY FS_StrictSubsetOrderingWellFounded
<1>3. PICK T \in B : \A U \in B : ~ (<<U, T>> \in StrictSubsetOrdering(S))
  BY <1>1, <1>2, WFMin
<1>4. ASSUME NEW U \in B, U \subseteq T, U # T PROVE FALSE
  <2>1. <<U, T>> \in StrictSubsetOrdering(S)
    BY <1>4 DEF StrictSubsetOrdering
  <2> QED BY <1>3, <1>4, <2>1
<1> QED BY <1>4

(* Induction over a finite set: P holds of {} and of a set with one more    *)
(* element.                                                                 *)
LEMMA FiniteInduction ==
  ASSUME NEW S, IsFiniteSet(S), NEW P, {} \in P,
         \A T \in SUBSET S : \A x \in S \ T : T \in P => T \cup {x} \in P
  PROVE  S \in P
<1> DEFINE Bad == {T \in SUBSET S : T \notin P}
<1>1. SUFFICES ASSUME Bad # {} PROVE FALSE
  OBVIOUS
<1>2. PICK T \in Bad : \A U \in Bad : U \subseteq T => U = T
  <2>1. Bad \in SUBSET SUBSET S
    OBVIOUS
  <2> HIDE DEF Bad
  <2> QED BY <1>1, <2>1, LeastSubset
<1>3. PICK x : x \in T
  BY <1>2
<1>4. T \ {x} \in P
  BY <1>2, <1>3
<1>5. (T \ {x}) \cup {x} = T
  BY <1>3
<1> QED BY <1>2, <1>3, <1>4, <1>5

(* A set of natural numbers that is not empty has a least one. *)
LEMMA LeastNatural ==
  ASSUME NEW B \in SUBSET Nat, B # {}
  PROVE  \E m \in B : \A i \in B : m <= i
<1> DEFINE Below(i) == {j \in Nat : j < i}
           Belows == {Below(i) : i \in B}
<1>1. Belows # {} /\ Belows \subseteq FiniteSubsetsOf(Nat)
  <2>1. ASSUME NEW i \in B PROVE Below(i) \in FiniteSubsetsOf(Nat)
    <3>1. IsFiniteSet(0..i) /\ Below(i) \in SUBSET (0..i)
      BY FS_Interval
    <3> QED BY <3>1, FS_Subset DEF FiniteSubsetsOf
  <2> QED BY <2>1
<1>2. IsWellFoundedOn(StrictSubsetOrdering(Nat), FiniteSubsetsOf(Nat))
  BY FS_StrictSubsetOrderingWellFounded
<1>3. PICK T \in Belows : \A U \in Belows : ~ (<<U, T>> \in StrictSubsetOrdering(Nat))
  BY <1>1, <1>2, WFMin
<1>4. PICK m \in B : T = Below(m)
  BY <1>3
<1>5. ASSUME NEW i \in B, i < m PROVE FALSE
  <2>1. <<Below(i), Below(m)>> \in StrictSubsetOrdering(Nat)
    <3>1. Below(i) \subseteq Below(m) /\ i \in Below(m) /\ i \notin Below(i)
      BY <1>5
    <3> QED BY <3>1 DEF StrictSubsetOrdering
  <2> QED BY <1>3, <1>4, <2>1
<1> QED BY <1>5

(* Induction over 0..n. *)
LEMMA IntervalInduction ==
  ASSUME NEW n \in Nat, NEW P, 0 \in P, \A i \in 0..(n - 1) : i \in P => i + 1 \in P
  PROVE  \A i \in 0..n : i \in P
<1> DEFINE B == {i \in 0..n : i \notin P}
<1>1. SUFFICES ASSUME B # {} PROVE FALSE
  OBVIOUS
<1>2. PICK m \in B : \A i \in B : m <= i
  <2>1. B \in SUBSET Nat
    OBVIOUS
  <2> HIDE DEF B
  <2> QED BY <1>1, <2>1, LeastNatural
<1>3. m - 1 \in 0..(n - 1) /\ m - 1 \in P
  BY <1>2
<1> QED BY <1>2, <1>3

-----------------------------------------------------------------------------
(* The order of Ordered(), given by those that come before each member of S. *)

IsOrder(S, before) ==
  /\ before \in [S -> SUBSET S]
  /\ \A x \in S : x \notin before[x]
  /\ \A x, y \in S : x \in before[y] => before[x] \subseteq before[y]
  /\ \A x, y \in S : x = y \/ x \in before[y] \/ y \in before[x]

(* The sequence f holds each member of S once, in that order. *)
Enumerates(f, S, before) ==
  /\ f \in [1..Cardinality(S) -> S]
  /\ \A x \in S : \E i \in 1..Cardinality(S) : f[i] = x
  /\ \A i, j \in 1..Cardinality(S) : i < j => f[i] \in before[f[j]] /\ f[i] # f[j]

(* The members of a finite ordered set are numbered without a gap. *)
LEMMA RanksAreDense ==
  ASSUME NEW S, IsFiniteSet(S), NEW before, IsOrder(S, before),
         NEW rank, rank = [x \in S |-> Cardinality(before[x])],
         NEW n, n = Cardinality(S)
  PROVE  /\ n \in Nat /\ rank \in [S -> Int] /\ \A x \in S : rank[x] \in 0..(n - 1)
         /\ \A x, y \in S : x \in before[y] => rank[x] < rank[y]
         /\ \A x, y \in S : rank[x] = rank[y] => x = y
         /\ \A i \in 1..n : \E x \in S : rank[x] = i - 1
<1>1. n \in Nat
  BY FS_CardinalityType
<1>2. ASSUME NEW x \in S PROVE IsFiniteSet(before[x]) /\ rank[x] \in 0..(n - 1)
  <2>1. before[x] \in SUBSET S /\ before[x] # S
    BY <1>2 DEF IsOrder
  <2>2. IsFiniteSet(before[x]) /\ rank[x] <= n /\ rank[x] # n
    BY <1>2, <2>1, FS_Subset
  <2>3. rank[x] \in Nat
    BY <1>2, <2>2, FS_CardinalityType
  <2> QED BY <1>1, <2>2, <2>3
<1>3. ASSUME NEW x \in S, NEW y \in S, x \in before[y] PROVE rank[x] < rank[y]
  <2>1. before[x] \in SUBSET before[y] /\ before[x] # before[y]
    BY <1>3 DEF IsOrder
  <2>2. rank[x] <= rank[y] /\ rank[x] # rank[y]
    BY <1>2, <1>3, <2>1, FS_Subset
  <2>3. rank[x] \in Int /\ rank[y] \in Int
    BY <1>1, <1>2, <1>3
  <2> QED BY <2>2, <2>3
<1>4. rank \in [S -> Int] /\ \A x \in S : rank[x] \in 0..(n - 1)
  BY <1>1, <1>2
<1>5. ASSUME NEW x \in S, NEW y \in S, rank[x] = rank[y] PROVE x = y
  <2>1. ~ (rank[x] < rank[y]) /\ ~ (rank[y] < rank[x])
    BY <1>1, <1>2, <1>5
  <2> QED BY <1>3, <1>5, <2>1 DEF IsOrder
<1>6. \A i \in 1..n : \E x \in S : rank[x] = i - 1
  <2>1. PICK f : f = [x \in S |-> rank[x] + 1]
    OBVIOUS
  <2>2. f \in [S -> 1..n] /\ \A x \in S : f[x] = rank[x] + 1
    BY <1>1, <1>4, <2>1
  <2>3. ASSUME NEW x \in S, NEW y \in S, f[x] = f[y] PROVE x = y
    BY <1>4, <1>5, <2>2, <2>3
  <2>4. f \in Injection(S, 1..n)
    BY <2>2, <2>3 DEF Injection, IsInjective
  <2>5. IsFiniteSet(1..n) /\ Cardinality(1..n) = n
    BY <1>1, FS_Interval
  <2>6. f \in Surjection(S, 1..n)
    BY <1>1, <2>4, <2>5, FS_Injection
  <2>7. \A i \in 1..n : \E x \in S : f[x] = i
    BY <2>6 DEF Surjection
  <2> QED BY <1>1, <1>4, <2>2, <2>7
<1> QED BY <1>1, <1>3, <1>4, <1>5, <1>6

(* The sequence f holds at i, if there is one, a member of that rank. *)
HoldsRanks(f, n, S, before) ==
  /\ f = [i \in 1..n |-> f[i]]
  /\ \A i \in 1..n : (\E x \in S : Cardinality(before[x]) = i - 1) =>
       f[i] \in S /\ Cardinality(before[f[i]]) = i - 1

(* Enumerated() chooses a member of each rank. *)
LEMMA ChosenInOrder ==
  ASSUME NEW S, NEW before
  PROVE  HoldsRanks(Enumerated(S, before), Cardinality(S), S, before)
<1>1. PICK f, n : f = Enumerated(S, before) /\ n = Cardinality(S)
  OBVIOUS
<1>2. f = [i \in 1..n |-> CHOOSE x \in S : Cardinality(before[x]) = i - 1]
  BY <1>1 DEF Enumerated
<1>3. HoldsRanks(f, n, S, before)
  BY <1>2 DEF HoldsRanks
<1> QED BY <1>1, <1>3

(* Enumerated() is what it is named for: each member once, in order. *)
LEMMA EnumeratedEnumerates ==
  ASSUME NEW S, IsFiniteSet(S), NEW before, IsOrder(S, before),
         NEW f, f = Enumerated(S, before)
  PROVE  Enumerates(f, S, before)
<1>1. PICK n : n = Cardinality(S)
  OBVIOUS
<1>0. HoldsRanks(f, n, S, before)
  BY <1>1, ChosenInOrder
<1>2. PICK rank : rank = [x \in S |-> Cardinality(before[x])]
  OBVIOUS
<1>3. /\ n \in Nat /\ rank \in [S -> Int] /\ \A x \in S : rank[x] \in 0..(n - 1)
      /\ \A x, y \in S : x \in before[y] => rank[x] < rank[y]
      /\ \A x, y \in S : rank[x] = rank[y] => x = y
      /\ \A i \in 1..n : \E x \in S : rank[x] = i - 1
  BY <1>1, <1>2, RanksAreDense
<1>4. ASSUME NEW i \in 1..n PROVE f[i] \in S /\ rank[f[i]] = i - 1
  <2>1. PICK x \in S : rank[x] = i - 1
    BY <1>3
  <2>2. \E y \in S : Cardinality(before[y]) = i - 1
    BY <1>2, <2>1
  <2>3. f[i] \in S /\ Cardinality(before[f[i]]) = i - 1
    BY <2>2, <1>0 DEF HoldsRanks
  <2> QED BY <1>2, <2>3
<1>5. f \in [1..n -> S]
  BY <1>0, <1>4 DEF HoldsRanks
<1>6. ASSUME NEW x \in S PROVE \E i \in 1..n : f[i] = x
  <2>1. PICK i \in 1..n : i = rank[x] + 1
    BY <1>3
  <2>2. f[i] \in S /\ rank[f[i]] = rank[x]
    BY <1>3, <1>4, <2>1
  <2> QED BY <1>3, <2>2
<1>7. ASSUME NEW i \in 1..n, NEW j \in 1..n, i < j PROVE f[i] \in before[f[j]] /\ f[i] # f[j]
  <2>1. f[i] \in S /\ f[j] \in S /\ rank[f[i]] = i - 1 /\ rank[f[j]] = j - 1
    BY <1>4
  <2>2. f[i] # f[j] /\ ~ (rank[f[j]] < rank[f[i]])
    BY <1>3, <1>7, <2>1
  <2> QED BY <1>3, <2>1, <2>2 DEF IsOrder
<1> QED BY <1>1, <1>5, <1>6, <1>7 DEF Enumerates

(* Integers in their order, and readings in that of their ids. *)
Lower(S, before) == before \in [S -> SUBSET S] /\ \A x, y \in S : x \in before[y] <=> x < y
Earlier(R, before) ==
  before \in [R -> SUBSET R] /\ \A x, y \in R : x \in before[y] <=> x.id < y.id

InOrder(f, S) ==
  /\ Cardinality(S) \in Nat /\ f \in [1..Cardinality(S) -> S]
  /\ \A x \in S : \E i \in 1..Cardinality(S) : f[i] = x
  /\ \A i, j \in 1..Cardinality(S) : i < j => f[i] < f[j]

InOrderOfIds(f, R) ==
  /\ Cardinality(R) \in Nat /\ f \in [1..Cardinality(R) -> R]
  /\ \A x \in R : \E i \in 1..Cardinality(R) : f[i] = x
  /\ \A i, j \in 1..Cardinality(R) : i < j => f[i].id < f[j].id

(* The two orders that sort() and the store use, of numbers and of ids. *)
LEMMA OrdersOfUse ==
  ASSUME NEW S, NEW before
  PROVE  /\ before = [x \in S |-> {y \in S : y < x}] => Lower(S, before)
         /\ before = [x \in S |-> {y \in S : y.id < x.id}] => Earlier(S, before)
<1>1. ASSUME before = [x \in S |-> {y \in S : y < x}] PROVE Lower(S, before)
  BY <1>1 DEF Lower
<1>2. ASSUME before = [x \in S |-> {y \in S : y.id < x.id}] PROVE Earlier(S, before)
  BY <1>2 DEF Earlier
<1> QED BY <1>1, <1>2

(* Numbers are enumerated from the least on. *)
LEMMA EnumeratedIntegers ==
  ASSUME NEW S \in SUBSET Int, IsFiniteSet(S), NEW before, Lower(S, before)
  PROVE  InOrder(Enumerated(S, before), S)
<1>1. ASSUME NEW x \in S, NEW y \in S, x \in before[y] PROVE before[x] \subseteq before[y]
  <2>1. x \in Int /\ y \in Int /\ before[x] \subseteq S /\ x < y
    BY <1>1 DEF Lower
  <2>2. ASSUME NEW z \in before[x] PROVE z \in before[y]
    <3>1. z \in S /\ z \in Int /\ z < x
      BY <2>1, <2>2 DEF Lower
    <3> QED BY <2>1, <3>1 DEF Lower
  <2> QED BY <2>2
<1>2. IsOrder(S, before)
  BY <1>1 DEF IsOrder, Lower
<1>3. Enumerates(Enumerated(S, before), S, before) /\ Cardinality(S) \in Nat
  BY <1>2, EnumeratedEnumerates, FS_CardinalityType
<1> QED BY <1>3 DEF Enumerates, Lower, InOrder

(* Readings are enumerated in the order they came in. *)
LEMMA EnumeratedReadings ==
  ASSUME NEW R, IsFiniteSet(R), \A r \in R : r.id \in Int,
         \A r, s \in R : r.id = s.id => r = s,
         NEW before, Earlier(R, before)
  PROVE  InOrderOfIds(Enumerated(R, before), R)
<1>1. ASSUME NEW x \in R, NEW y \in R, x \in before[y] PROVE before[x] \subseteq before[y]
  BY <1>1 DEF Earlier
<1>2. IsOrder(R, before)
  BY <1>1 DEF IsOrder, Earlier
<1>3. Enumerates(Enumerated(R, before), R, before) /\ Cardinality(R) \in Nat
  BY <1>2, EnumeratedEnumerates, FS_CardinalityType
<1> QED BY <1>3 DEF Enumerates, Earlier, InOrderOfIds

-----------------------------------------------------------------------------
(* Sequences *)

LEMMA FunctionsAreSequences ==
  ASSUME NEW f, NEW n \in Nat, DOMAIN f = 1..n, f = [i \in 1..n |-> f[i]]
  PROVE  f \in Seq({f[i] : i \in 1..n}) /\ Len(f) = n
OBVIOUS

(* What a row appended to a sequence gives. *)
LEMMA Appended ==
  ASSUME NEW f, NEW n \in Nat, f = [i \in 1..n |-> f[i]], NEW e
  PROVE  Append(f, e) = [i \in 1..(n + 1) |-> IF i = n + 1 THEN e ELSE f[i]]
<1>1. f \in Seq({f[i] : i \in 1..n}) /\ Len(f) = n
  BY FunctionsAreSequences
<1> QED BY <1>1

(* The members of an interval in their order. *)
LEMMA EnumeratedInterval ==
  ASSUME NEW m \in Int, NEW n \in Int, m <= n + 1, NEW S, S = m..n,
         NEW before, Lower(S, before), NEW f, f = Enumerated(S, before)
  PROVE  f = [i \in 1..(n + 1 - m) |-> i + m - 1]
<1>1. IsFiniteSet(S) /\ Cardinality(S) = n + 1 - m
  BY FS_Interval
<1>2. ASSUME NEW x \in S PROVE Cardinality(before[x]) = x - m
  <2>1. before[x] \subseteq S /\ \A y \in S : y \in before[x] <=> y < x
    BY <1>2, Zenon DEF Lower
  <2>2. ASSUME NEW y PROVE y \in before[x] <=> y \in m..(x - 1)
    <3>1. y \in S <=> y \in Int /\ m <= y /\ y <= n
      OBVIOUS
    <3>2. x \in Int /\ m <= x /\ x <= n
      BY <1>2
    <3> QED BY <2>1, <3>1, <3>2
  <2>3. x - 1 \in Int /\ x - 1 - m + 1 = x - m /\ (m > x - 1 => x - m = 0)
    BY <1>2
  <2>4. Cardinality(m..(x - 1)) = IF m > x - 1 THEN 0 ELSE x - 1 - m + 1
    BY <2>3, FS_Interval
  <2>5. before[x] = m..(x - 1)
    BY <2>2
  <2> QED BY <2>3, <2>4, <2>5
<1>3. /\ f = [i \in 1..(n + 1 - m) |-> f[i]]
      /\ \A i \in 1..(n + 1 - m) :
           (\E x \in S : Cardinality(before[x]) = i - 1) =>
             f[i] \in S /\ Cardinality(before[f[i]]) = i - 1
  <2>1. HoldsRanks(f, n + 1 - m, S, before)
    BY <1>1, ChosenInOrder
  <2> QED BY <2>1 DEF HoldsRanks
<1>4. ASSUME NEW i \in 1..(n + 1 - m) PROVE f[i] = i + m - 1
  <2>1. i + m - 1 \in S /\ i + m - 1 - m = i - 1
    BY <1>4
  <2>2. Cardinality(before[i + m - 1]) = i - 1
    BY <1>2, <2>1
  <2>3. f[i] \in S /\ Cardinality(before[f[i]]) = i - 1
    BY <1>3, <1>4, <2>1, <2>2
  <2>4. f[i] - m = i - 1
    BY <1>2, <2>3
  <2> QED BY <1>4, <2>3, <2>4
<1> QED BY <1>3, <1>4

-----------------------------------------------------------------------------
(* What the helpers of Aggregation return, as predicates *)

(* f holds what the sequence s has at the places K, in its order. *)
Keeps(f, s, K) ==
  /\ f = [n \in 1..Cardinality(K) |-> f[n]]
  /\ \E kept : InOrder(kept, K) /\ \A n \in 1..Cardinality(K) : f[n] = s[kept[n]]

IsRows(f) == Len(f) \in Nat /\ f = [i \in 1..Len(f) |-> f[i]]

(* The order of the readings of a set, by id. *)
LEMMA OrderedById ==
  ASSUME NEW R, IsFiniteSet(R), \A r \in R : r.id \in Int,
         \A r, s \in R : r.id = s.id => r = s
  PROVE  InOrderOfIds(Ordered(R, LAMBDA r, s : r.id < s.id), R)
<1>1. PICK before : before = [x \in R |-> {y \in R : y.id < x.id}]
  OBVIOUS
<1>2. Earlier(R, before)
  BY <1>1, OrdersOfUse, Zenon
<1>3. Ordered(R, LAMBDA r, s : r.id < s.id) = Enumerated(R, before)
  BY <1>1, Zenon DEF Ordered
<1>4. InOrderOfIds(Enumerated(R, before), R)
  BY <1>2, EnumeratedReadings
<1> QED BY <1>3, <1>4, Zenon

(* A finite set of numbers in their order. *)
LEMMA OrderedInOrder ==
  ASSUME NEW S \in SUBSET Int, IsFiniteSet(S)
  PROVE  InOrder(Ordered(S, <), S)
<1>1. PICK before : before = [x \in S |-> {y \in S : y < x}]
  OBVIOUS
<1>2. Lower(S, before)
  BY <1>1, OrdersOfUse, Zenon
<1>3. Ordered(S, <) = Enumerated(S, before)
  BY <1>1, Zenon DEF Ordered
<1>4. InOrder(Enumerated(S, before), S)
  BY <1>2, EnumeratedIntegers
<1> QED BY <1>3, <1>4, Zenon

(* Filtered(), its places written out. *)
LEMMA KeptPlaces ==
  ASSUME NEW s, NEW K, NEW kept, InOrder(kept, K),
         NEW f, f = [n \in DOMAIN kept |-> s[kept[n]]]
  PROVE  Keeps(f, s, K) /\ IsRows(f) /\ Len(f) = Cardinality(K)
<1>1. PICK c : c = Cardinality(K)
  OBVIOUS
<1>2. c \in Nat /\ DOMAIN kept = 1..c
  BY <1>1 DEF InOrder
<1>3. f = [n \in 1..c |-> s[kept[n]]]
  BY <1>2
<1>4. /\ f = [n \in 1..c |-> f[n]] /\ Len(f) = c
      /\ \A n \in 1..c : f[n] = s[kept[n]]
  BY <1>2, <1>3
<1>5. IsRows(f)
  BY <1>2, <1>4 DEF IsRows
<1>6. Keeps(f, s, K)
  BY <1>1, <1>4, Zenon DEF Keeps
<1> QED BY <1>1, <1>4, <1>5, <1>6

-----------------------------------------------------------------------------
(* The rows of the exports *)

(* Readings as a request finds them. *)
Readable(A) ==
  /\ IsFiniteSet(A)
  /\ \A r \in A : r.id \in 1..MaxReadings /\ r.value \in Int /\ r.time \in Instants
  /\ \A r, s \in A : r.id = s.id => r = s

(* What holds of the stored readings holds of a selection of them. *)
LEMMA SomeAreReadable ==
  ASSUME NEW A, Readable(A), NEW R, R \subseteq A
  PROVE  Readable(R)
<1>1. IsFiniteSet(R)
  BY FS_Subset DEF Readable
<1> QED BY <1>1 DEF Readable

(* Stored readings have an order of arrival. *)
LEMMA ReadableInOrder ==
  ASSUME NEW A, Readable(A)
  PROVE  InOrderOfIds(Ordered(A, LAMBDA r, s : r.id < s.id), A)
<1>1. IsFiniteSet(A) /\ \A r, s \in A : r.id = s.id => r = s
  BY DEF Readable
<1>2. \A r \in A : r.id \in Int
  BY StoreAssumption DEF Readable, StoreAssumption
<1> QED BY <1>1, <1>2, OrderedById, Zenon

(* Some places of a sequence, in their order. *)
LEMMA FinitePlaces ==
  ASSUME NEW len \in Nat, NEW K, K \subseteq 1..len
  PROVE  K \in SUBSET Int /\ IsFiniteSet(K) /\ InOrder(Ordered(K, <), K)
<1>1. IsFiniteSet(1..len)
  BY FS_Interval
<1>2. K \in SUBSET (1..len) /\ K \in SUBSET Int
  OBVIOUS
<1>3. IsFiniteSet(K)
  BY <1>1, <1>2, FS_Subset, Zenon
<1> QED BY <1>2, <1>3, OrderedInOrder, Zenon

(* getExportMeters(): the devices of the location, in the order of the      *)
(* registry.                                                                *)
LEMMA MetersAreKept ==
  ASSUME NEW D, NEW list \in Seq(D), NEW location,
         NEW K, K = {i \in DOMAIN list : location # Null => list[i].location = location}
  PROVE  /\ Keeps(GetExportMeters(list, location), list, K)
         /\ IsRows(GetExportMeters(list, location))
         /\ Len(GetExportMeters(list, location)) = Cardinality(K)
<1>1. InOrder(Ordered(K, <), K)
  <2>1. K \subseteq 1..Len(list) /\ Len(list) \in Nat
    OBVIOUS
  <2> QED BY <2>1, FinitePlaces, Zenon
<1>2. PICK kept : /\ InOrder(kept, K)
                  /\ GetExportMeters(list, location) = [n \in DOMAIN kept |-> list[kept[n]]]
  BY <1>1, Zenon DEF GetExportMeters, Filtered
<1> QED BY <1>2, KeptPlaces

(* getExportReadings() gives every reading of the query once, in order. *)
LEMMA ReadingsAreRows ==
  ASSUME NEW A, Readable(A), NEW q, NEW f, f = GetExportReadings(A, q)
  PROVE  /\ IsRows(f) /\ Len(f) = Cardinality(Matching(A, q))
         /\ \E rows : /\ InOrderOfIds(rows, Matching(A, q))
                      /\ \A i \in 1..Len(f) : f[i] = ToExportReading(rows[i])
<1>1. Matching(A, q) \subseteq A
  BY DEF Matching
<1>2. PICK R : R = Matching(A, q)
  OBVIOUS
<1>3. InOrderOfIds(Ordered(R, LAMBDA r, s : r.id < s.id), R)
  BY <1>1, <1>2, SomeAreReadable, ReadableInOrder, Zenon
<1>4. PICK rows : InOrderOfIds(rows, R) /\ f = [i \in DOMAIN rows |-> ToExportReading(rows[i])]
  BY <1>2, <1>3, Zenon DEF GetExportReadings
<1>5. PICK c : c = Cardinality(R)
  OBVIOUS
<1>6. c \in Nat /\ DOMAIN rows = 1..c
  BY <1>4, <1>5 DEF InOrderOfIds
<1>7. Len(f) = c /\ f = [i \in 1..c |-> f[i]] /\ \A i \in 1..c : f[i] = ToExportReading(rows[i])
  BY <1>4, <1>6
<1> QED BY <1>2, <1>4, <1>5, <1>6, <1>7 DEF IsRows

-----------------------------------------------------------------------------
(* The calendar *)

LEMMA HoursArePositive == HoursInDay \in Nat /\ HoursInDay > 0
BY CalendarAssumption DEF CalendarAssumption

(* A time is in the day that its quotient says. *)
LEMMA Division ==
  ASSUME NEW h \in Nat, h > 0, NEW t \in Int
  PROVE  /\ t \div h \in Int /\ (t \div h) * h \in Int
         /\ (t \div h) * h <= t /\ t < (t \div h) * h + h
OBVIOUS

(* One day ends before the next begins. *)
LEMMA DaysDoNotOverlap ==
  ASSUME NEW h \in Nat, h > 0, NEW d \in Int, NEW e \in Int, d < e
  PROVE  d * h \in Int /\ e * h \in Int /\ d * h + h <= e * h
OBVIOUS

(* StartOfDay() is linear. *)
LEMMA DaysAdd ==
  ASSUME NEW d \in Int, NEW e \in Int
  PROVE  /\ StartOfDay(d) \in Int /\ StartOfDay(d + e) = StartOfDay(d) + StartOfDay(e)
         /\ StartOfDay(d - e) = StartOfDay(d) - StartOfDay(e)
<1>1. HoursInDay \in Int
  BY HoursArePositive
<1> QED BY <1>1 DEF StartOfDay

(* A day is HoursInDay long. *)
LEMMA NextDayStarts ==
  ASSUME NEW d \in Int PROVE StartOfDay(d + 1) = StartOfDay(d) + HoursInDay
BY HoursArePositive DEF StartOfDay

(* A day is earlier when it ends before the other starts. *)
LEMMA DaysInOrder ==
  ASSUME NEW d \in Int, NEW e \in Int
  PROVE  d < e <=> StartOfDay(d) + HoursInDay <= StartOfDay(e)
<1>1. d < e => StartOfDay(d) + HoursInDay <= StartOfDay(e)
  BY HoursArePositive, DaysDoNotOverlap DEF StartOfDay
<1>2. e < d => StartOfDay(e) + HoursInDay <= StartOfDay(d)
  BY HoursArePositive, DaysDoNotOverlap DEF StartOfDay
<1>3. StartOfDay(d) \in Int /\ StartOfDay(e) \in Int
  BY DaysAdd
<1> QED BY <1>1, <1>2, <1>3, HoursArePositive

(* An instant is in its day. *)
LEMMA DayOfTime ==
  ASSUME NEW t \in Int
  PROVE  /\ DayOf(t) \in Int /\ StartOfDay(DayOf(t)) \in Int
         /\ StartOfDay(DayOf(t)) <= t /\ t < StartOfDay(DayOf(t)) + HoursInDay
BY HoursArePositive, Division DEF DayOf, StartOfDay

(* A time is of the day it lies in. *)
LEMMA DayIsUnique ==
  ASSUME NEW t \in Int, NEW d \in Int, StartOfDay(d) <= t, t < StartOfDay(d) + HoursInDay
  PROVE  DayOf(t) = d
<1>1. /\ DayOf(t) \in Int /\ StartOfDay(DayOf(t)) \in Int /\ StartOfDay(d) \in Int
      /\ StartOfDay(DayOf(t)) <= t /\ t < StartOfDay(DayOf(t)) + HoursInDay
  BY DayOfTime, DaysAdd
<1>2. /\ d < DayOf(t) => StartOfDay(d) + HoursInDay <= StartOfDay(DayOf(t))
      /\ DayOf(t) < d => StartOfDay(DayOf(t)) + HoursInDay <= StartOfDay(d)
  BY <1>1, DaysInOrder
<1> QED BY <1>1, <1>2, HoursArePositive

(* Later instants are in no earlier days. *)
LEMMA DaysGrow ==
  ASSUME NEW t \in Int, NEW u \in Int, t <= u
  PROVE  DayOf(t) <= DayOf(u)
<1>1. /\ DayOf(t) \in Int /\ StartOfDay(DayOf(t)) \in Int /\ StartOfDay(DayOf(t)) <= t
      /\ DayOf(u) \in Int /\ StartOfDay(DayOf(u)) \in Int /\ u < StartOfDay(DayOf(u)) + HoursInDay
  BY DayOfTime
<1>2. DayOf(u) < DayOf(t) => StartOfDay(DayOf(u)) + HoursInDay <= StartOfDay(DayOf(t))
  BY <1>1, DaysInOrder
<1> QED BY <1>1, <1>2, HoursArePositive

(* Whole days later is as many days on. *)
LEMMA DayLater ==
  ASSUME NEW t \in Int, NEW k \in Int
  PROVE  DayOf(t + StartOfDay(k)) = DayOf(t) + k
<1>1. /\ DayOf(t) \in Int /\ StartOfDay(DayOf(t)) \in Int /\ StartOfDay(k) \in Int
      /\ StartOfDay(DayOf(t)) <= t /\ t < StartOfDay(DayOf(t)) + HoursInDay
  BY DayOfTime, DaysAdd
<1>2. StartOfDay(DayOf(t) + k) = StartOfDay(DayOf(t)) + StartOfDay(k)
  BY <1>1, DaysAdd
<1>3. t + StartOfDay(k) \in Int /\ DayOf(t) + k \in Int
  BY <1>1
<1> QED BY <1>1, <1>2, <1>3, HoursArePositive, DayIsUnique

(* The first and the last hour of a day are in it. *)
LEMMA DayOfStart ==
  ASSUME NEW d \in Int
  PROVE  DayOf(StartOfDay(d)) = d /\ DayOf(StartOfDay(d) + HoursInDay - 1) = d
<1>1. StartOfDay(d) \in Int /\ StartOfDay(d) + HoursInDay - 1 \in Int
  <2>1. StartOfDay(d) \in Int
    BY DaysAdd
  <2> QED BY <2>1, HoursArePositive
<1>2. DayOf(StartOfDay(d)) = d
  <2>1. StartOfDay(d) <= StartOfDay(d) /\ StartOfDay(d) < StartOfDay(d) + HoursInDay
    BY <1>1, HoursArePositive
  <2> QED BY <1>1, <2>1, DayIsUnique
<1>3. DayOf(StartOfDay(d) + HoursInDay - 1) = d
  <2>1. PICK t \in Int : t = StartOfDay(d) + HoursInDay - 1
    BY <1>1
  <2>2. StartOfDay(d) <= t /\ t < StartOfDay(d) + HoursInDay
    BY <1>1, <2>1, HoursArePositive
  <2>3. DayOf(t) = d
    BY <2>2, DayIsUnique
  <2> QED BY <2>1, <2>3
<1> QED BY <1>2, <1>3

(* setUTCHours(23, 59, 59, 999): nothing of the day is later, nothing       *)
(* later is of it.                                                          *)
LEMMA EndOfDayOfTime ==
  ASSUME NEW t \in Int
  PROVE  /\ EndOfDay(t) \in Int /\ t <= EndOfDay(t) /\ DayOf(EndOfDay(t)) = DayOf(t)
         /\ \A u \in Int : u <= EndOfDay(t) <=> DayOf(u) <= DayOf(t)
<1>1. /\ DayOf(t) \in Int /\ StartOfDay(DayOf(t)) \in Int
      /\ StartOfDay(DayOf(t)) <= t /\ t < StartOfDay(DayOf(t)) + HoursInDay
  BY DayOfTime
<1>2. EndOfDay(t) = StartOfDay(DayOf(t)) + HoursInDay - 1 /\ EndOfDay(t) \in Int
  BY <1>1, HoursArePositive DEF EndOfDay
<1>3. DayOf(EndOfDay(t)) = DayOf(t)
  BY <1>1, <1>2, DayOfStart
<1>4. ASSUME NEW u \in Int PROVE u <= EndOfDay(t) <=> DayOf(u) <= DayOf(t)
  <2>1. /\ DayOf(u) \in Int /\ StartOfDay(DayOf(u)) \in Int /\ StartOfDay(DayOf(u)) <= u
    BY DayOfTime
  <2>2. DayOf(t) < DayOf(u) => StartOfDay(DayOf(t)) + HoursInDay <= StartOfDay(DayOf(u))
    BY <1>1, <2>1, DaysInOrder
  <2>3. u <= EndOfDay(t) => DayOf(u) <= DayOf(t)
    BY <1>2, <1>3, DaysGrow
  <2>4. EndOfDay(t) < u => DayOf(t) < DayOf(u)
    <3>1. EndOfDay(t) < u => DayOf(t) <= DayOf(u)
      BY <1>2, <1>3, DaysGrow
    <3>2. u < StartOfDay(DayOf(u)) + HoursInDay
      BY DayOfTime
    <3>3. DayOf(u) = DayOf(t) => u <= EndOfDay(t)
      BY <1>1, <1>2, <3>2, HoursArePositive
    <3> QED BY <1>1, <1>2, <2>1, <3>1, <3>3
  <2> QED BY <1>1, <1>2, <2>1, <2>3, <2>4
<1> QED BY <1>1, <1>2, <1>3, <1>4, HoursArePositive

(* The months *)

Months == Len(MonthLengths)

(* The months of the calendar. *)
LEMMA MonthsHaveLengths ==
  /\ Months \in Nat /\ DOMAIN MonthLengths = 1..Months
  /\ \A m \in 1..Months : MonthLengths[m] \in Nat /\ MonthLengths[m] > 0
BY CalendarAssumption DEF CalendarAssumption, Months

(* f is MonthStart up to month n. *)
StartsUpTo(f, n) ==
  f = [m \in 1..n |-> IF m = 1 THEN 0 ELSE f[m - 1] + MonthLengths[m - 1]]

(* The recursion of MonthStart ends, as each month asks for the one         *)
(* before.                                                                  *)
LEMMA StartsExist == \E f : StartsUpTo(f, Months + 1)
<1> DEFINE P == {n \in 0..Months : \E f : StartsUpTo(f, n + 1)}
<1>1. Months \in Nat
  BY MonthsHaveLengths
<1>2. 0 \in P
  <2>1. PICK f : f = [m \in 1..1 |-> 0]
    OBVIOUS
  <2>2. StartsUpTo(f, 1)
    BY <2>1 DEF StartsUpTo
  <2> QED BY <1>1, <2>2
<1>3. ASSUME NEW n \in 0..(Months - 1), n \in P PROVE n + 1 \in P
  <2>1. PICK f : StartsUpTo(f, n + 1)
    BY <1>3
  <2>2. PICK g : g = [m \in 1..(n + 2) |->
                        IF m = n + 2 THEN f[n + 1] + MonthLengths[n + 1] ELSE f[m]]
    OBVIOUS
  <2>3. StartsUpTo(g, n + 2)
    <3>1. \A m \in 1..(n + 1) : g[m] = f[m]
      BY <1>1, <2>2
    <3>2. g[n + 2] = g[n + 1] + MonthLengths[n + 1]
      BY <1>1, <2>2, <3>1
    <3>3. \A m \in 1..(n + 1) : f[m] = IF m = 1 THEN 0 ELSE f[m - 1] + MonthLengths[m - 1]
      BY <2>1 DEF StartsUpTo
    <3>4. ASSUME NEW m \in 1..(n + 2)
          PROVE  g[m] = IF m = 1 THEN 0 ELSE g[m - 1] + MonthLengths[m - 1]
      BY <1>1, <3>1, <3>2, <3>3
    <3>5. g = [m \in 1..(n + 2) |-> g[m]]
      BY <2>2
    <3> QED BY <3>4, <3>5 DEF StartsUpTo
  <2> QED BY <1>1, <2>3
<1> HIDE DEF P
<1>4. \A n \in 0..Months : n \in P
  BY <1>1, <1>2, <1>3, IntervalInduction
<1> QED BY <1>1, <1>4 DEF P

(* So it has a value, and the recursive equation holds of it. *)
LEMMA MonthStarts ==
  /\ MonthStart[1] = 0
  /\ \A m \in 1..Months : MonthStart[m + 1] = MonthStart[m] + MonthLengths[m]
<1>1. StartsUpTo(MonthStart, Months + 1)
  BY StartsExist DEF MonthStart, StartsUpTo, Months
<1> QED BY <1>1, MonthsHaveLengths DEF StartsUpTo

(* Months begin one after another. *)
LEMMA MonthsGrow ==
  /\ \A m \in 1..(Months + 1) : MonthStart[m] \in Nat
  /\ \A m \in 1..Months : MonthStart[m] < MonthStart[m + 1]
<1>1. PICK P : P = {n \in 0..Months : MonthStart[n + 1] \in Nat}
  OBVIOUS
<1>2. \A n \in 0..Months : n \in P
  <2>1. 0 \in P
    BY <1>1, MonthStarts, MonthsHaveLengths
  <2>2. ASSUME NEW n \in 0..(Months - 1), n \in P PROVE n + 1 \in P
    <3>1. n + 1 \in 1..Months /\ n + 1 \in 0..Months
      BY <2>2, MonthsHaveLengths
    <3>2. MonthStart[n + 1 + 1] = MonthStart[n + 1] + MonthLengths[n + 1]
      BY <3>1, MonthStarts
    <3> QED BY <1>1, <2>2, <3>1, <3>2, MonthsHaveLengths
  <2> QED BY <2>1, <2>2, MonthsHaveLengths, IntervalInduction
<1>3. ASSUME NEW m \in 1..(Months + 1) PROVE MonthStart[m] \in Nat
  <2>1. m - 1 \in 0..Months /\ m - 1 + 1 = m
    BY MonthsHaveLengths
  <2> QED BY <1>1, <1>2, <2>1
<1>4. ASSUME NEW m \in 1..Months PROVE MonthStart[m] < MonthStart[m + 1]
  <2>1. m \in 1..(Months + 1)
    BY MonthsHaveLengths
  <2> QED BY <1>3, <2>1, MonthStarts, MonthsHaveLengths
<1> QED BY <1>3, <1>4

(* A later month begins no earlier. *)
LEMMA MonthsInOrder ==
  ASSUME NEW m \in 1..(Months + 1), NEW n \in 1..(Months + 1), m <= n
  PROVE  MonthStart[m] <= MonthStart[n]
<1>1. PICK top \in Nat : top = Months + 1 - m
  BY MonthsHaveLengths
<1>2. PICK P : P = {k \in 0..top : MonthStart[m] <= MonthStart[m + k]}
  OBVIOUS
<1>3. 0 \in P
  BY <1>2, MonthsGrow
<1>4. ASSUME NEW k \in 0..(top - 1), k \in P PROVE k + 1 \in P
  <2>1. m + k \in 1..Months /\ m + k + 1 \in 1..(Months + 1) /\ m + k + 1 = m + (k + 1)
        /\ k + 1 \in 0..top /\ m + k \in 1..(Months + 1)
    BY <1>1, MonthsHaveLengths
  <2>2. MonthStart[m + k] < MonthStart[m + k + 1] /\ MonthStart[m] <= MonthStart[m + k]
    BY <1>2, <1>4, <2>1, MonthsGrow
  <2>3. MonthStart[m] \in Nat /\ MonthStart[m + k] \in Nat /\ MonthStart[m + k + 1] \in Nat
    BY <2>1, MonthsGrow
  <2>4. MonthStart[m] <= MonthStart[m + (k + 1)]
    BY <2>1, <2>2, <2>3
  <2> QED BY <1>2, <2>1, <2>4
<1>5. \A k \in 0..top : k \in P
  BY <1>3, <1>4, IntervalInduction
<1>6. n - m \in 0..top /\ m + (n - m) = n
  BY <1>1, MonthsHaveLengths
<1> QED BY <1>2, <1>5, <1>6

(* The days of the calendar. *)
CalendarDays == 0..(MonthStart[Months + 1] - 1)

(* MonthOf() of a day is the one month it lies in. *)
LEMMA MonthOfDay ==
  ASSUME NEW day \in CalendarDays
  PROVE  /\ MonthOf(day) \in 1..Months
         /\ MonthStart[MonthOf(day)] <= day /\ day < MonthStart[MonthOf(day) + 1]
<1> DEFINE Later == {m \in 1..Months : day < MonthStart[m + 1]}
<1>1. Months \in Nat /\ Months # 0
  BY MonthsHaveLengths, MonthStarts DEF CalendarDays
<1>2. PICK m \in Later : \A i \in Later : m <= i
  <2>1. Months \in Later
    BY <1>1, MonthsGrow DEF CalendarDays
  <2>2. Later \in SUBSET Nat
    BY <1>1
  <2> HIDE DEF Later
  <2> QED BY <2>1, <2>2, LeastNatural
<1>3. MonthStart[m] <= day
  <2>1. CASE m = 1
    BY <2>1, MonthStarts DEF CalendarDays
  <2>2. CASE m # 1
    <3>1. m - 1 \in 1..Months /\ ~ (m <= m - 1) /\ m - 1 + 1 = m /\ m \in 1..(Months + 1)
      BY <1>1, <1>2, <2>2
    <3>2. ~ (day < MonthStart[m])
      BY <1>2, <3>1
    <3>3. MonthStart[m] \in Nat /\ MonthStart[Months + 1] \in Nat
      BY <1>1, <3>1, MonthsGrow
    <3> QED BY <3>2, <3>3 DEF CalendarDays
  <2> QED BY <2>1, <2>2
<1>4. m \in DOMAIN MonthLengths /\ MonthStart[m] <= day /\ day < MonthStart[m + 1]
  BY <1>2, <1>3, MonthsHaveLengths
<1>5. /\ MonthOf(day) \in DOMAIN MonthLengths
      /\ MonthStart[MonthOf(day)] <= day /\ day < MonthStart[MonthOf(day) + 1]
  BY <1>4 DEF MonthOf
<1> QED BY <1>5, MonthsHaveLengths

(* No day is of two months. *)
LEMMA MonthIsUnique ==
  ASSUME NEW day \in CalendarDays, NEW m \in 1..Months,
         MonthStart[m] <= day, day < MonthStart[m + 1]
  PROVE  MonthOf(day) = m
<1>1. PICK k \in 1..Months : k = MonthOf(day) /\ MonthStart[k] <= day /\ day < MonthStart[k + 1]
  BY MonthOfDay
<1>2. /\ m \in 1..(Months + 1) /\ m + 1 \in 1..(Months + 1) /\ Months \in Nat
      /\ k \in 1..(Months + 1) /\ k + 1 \in 1..(Months + 1)
  BY MonthsHaveLengths
<1>3. /\ MonthStart[m] \in Nat /\ MonthStart[m + 1] \in Nat
      /\ MonthStart[k] \in Nat /\ MonthStart[k + 1] \in Nat
      /\ MonthStart[Months + 1] \in Nat /\ day \in Int
  BY <1>2, MonthsGrow DEF CalendarDays
<1>4. k < m => MonthStart[k + 1] <= MonthStart[m]
  BY <1>2, MonthsInOrder
<1>5. m < k => MonthStart[m + 1] <= MonthStart[k]
  BY <1>2, MonthsInOrder
<1> QED BY <1>1, <1>2, <1>3, <1>4, <1>5

(* Instants of the calendar are those of its days. *)
LEMMA InstantsHaveDays ==
  /\ Instants \subseteq Nat
  /\ \A t \in Instants : DayOf(t) \in CalendarDays /\ EndOfDay(t) \in Instants
  /\ \A d \in CalendarDays : StartOfDay(d) \in Instants
  /\ \A t \in Int : DayOf(t) \in CalendarDays => t \in Instants
<1>1. PICK last \in Nat : last = MonthStart[Months + 1]
  BY MonthsGrow, MonthsHaveLengths
<1>2. /\ StartOfDay(last) \in Int /\ Instants = 0..(StartOfDay(last) - 1)
      /\ CalendarDays = 0..(last - 1) /\ StartOfDay(0) = 0
  BY <1>1, HoursArePositive DEF Instants, CalendarDays, StartOfDay, Months
<1>3. ASSUME NEW t \in Int
      PROVE  t \in Instants <=> DayOf(t) \in CalendarDays
  <2>1. /\ DayOf(t) \in Int /\ StartOfDay(DayOf(t)) \in Int
        /\ StartOfDay(DayOf(t)) <= t /\ t < StartOfDay(DayOf(t)) + HoursInDay
    BY DayOfTime
  <2>2. DayOf(t) < last <=> StartOfDay(DayOf(t)) + HoursInDay <= StartOfDay(last)
    BY <2>1, DaysInOrder
  <2>3. DayOf(t) < 0 <=> StartOfDay(DayOf(t)) + HoursInDay <= StartOfDay(0)
    BY <2>1, DaysInOrder
  <2>4. last = DayOf(t) \/ last < DayOf(t) => StartOfDay(last) <= StartOfDay(DayOf(t))
    <3>1. last < DayOf(t) => StartOfDay(last) + HoursInDay <= StartOfDay(DayOf(t))
      BY <2>1, DaysInOrder
    <3> QED BY <1>2, <2>1, <3>1, HoursArePositive
  <2>5. DayOf(t) = 0 \/ 0 < DayOf(t) => 0 <= StartOfDay(DayOf(t))
    <3>1. 0 < DayOf(t) => StartOfDay(0) + HoursInDay <= StartOfDay(DayOf(t))
      BY <2>1, DaysInOrder
    <3> QED BY <1>2, <2>1, <3>1, HoursArePositive
  <2> QED BY <1>2, <2>1, <2>2, <2>3, <2>4, <2>5, HoursArePositive
<1>4. Instants \subseteq Nat /\ Instants \subseteq Int
  BY <1>2
<1>5. ASSUME NEW t \in Instants PROVE EndOfDay(t) \in Instants
  <2>1. t \in Int /\ EndOfDay(t) \in Int /\ DayOf(EndOfDay(t)) = DayOf(t)
    BY <1>4, EndOfDayOfTime
  <2> QED BY <1>3, <2>1
<1>6. ASSUME NEW d \in CalendarDays PROVE StartOfDay(d) \in Instants
  <2>1. d \in Int
    BY <1>2
  <2>2. StartOfDay(d) \in Int /\ DayOf(StartOfDay(d)) = d
    BY <2>1, DaysAdd, DayOfStart
  <2> QED BY <1>3, <2>2
<1>7. \A t \in Instants : t \in Int
  BY <1>4
<1> QED BY <1>3, <1>4, <1>5, <1>6, <1>7

-----------------------------------------------------------------------------
(* Buckets *)

(* Days since the Monday of a week. *)
InWeek(day) == (Weekday(day) + 6) % 7

(* Days of a week are counted from its Monday. *)
LEMMA WeekdaysAreSeven ==
  ASSUME NEW day \in Int
  PROVE  /\ InWeek(day) \in 0..6 /\ InWeek(day - InWeek(day)) = 0
         /\ \A k \in Int : InWeek(day + 7 * k) = InWeek(day)
         /\ \A k \in 0..6 : InWeek(day) + k < 7 => InWeek(day + k) = InWeek(day) + k
<1>1. FirstWeekday \in Int
  BY CalendarAssumption DEF CalendarAssumption
<1>2. ASSUME NEW e \in Int PROVE InWeek(e) = (FirstWeekday + e + 6) % 7
  BY <1>1 DEF InWeek, Weekday
<1>3. PICK n \in Int : n = FirstWeekday + day + 6
  BY <1>1
<1>4. \A k \in Int : InWeek(day + k) = (n + k) % 7
  BY <1>1, <1>2, <1>3
<1>5. PICK w \in 0..6 : w = n % 7
  OBVIOUS
<1>6. InWeek(day) = w
  BY <1>2, <1>3, <1>5
<1>7. (n - w) % 7 = 0
  BY <1>5
<1>8. ASSUME NEW k \in Int PROVE (n + 7 * k) % 7 = w /\ 7 * k \in Int
  BY <1>5
<1>9. ASSUME NEW k \in 0..6, w + k < 7 PROVE (n + k) % 7 = w + k
  BY <1>5, <1>9
<1>10. InWeek(day - w) = 0
  <2>1. day - w = day + (-w) /\ n - w = n + (-w) /\ -w \in Int
    OBVIOUS
  <2> QED BY <1>4, <1>7, <2>1
<1>11. \A k \in Int : InWeek(day + 7 * k) = w
  BY <1>4, <1>8
<1>12. ASSUME NEW k \in 0..6, w + k < 7 PROVE InWeek(day + k) = w + k
  BY <1>4, <1>9, <1>12
<1> QED BY <1>6, <1>10, <1>11, <1>12

(* getBucketKey() by granularity. *)
LEMMA BucketKeyHour == ASSUME NEW t PROVE BucketKey(t, "hour") = t
BY DEF BucketKey

(* getBucketKey(): the midnight that the day begins with. *)
LEMMA BucketKeyDay ==
  ASSUME NEW t PROVE BucketKey(t, "day") = StartOfDay(DayOf(t))
BY DEF BucketKey

(* getBucketKey(): the midnight that the Monday begins with. *)
LEMMA BucketKeyWeek ==
  ASSUME NEW t PROVE BucketKey(t, "week") = StartOfDay(DayOf(t) - InWeek(DayOf(t)))
BY DEF BucketKey, InWeek

(* getBucketKey(): the midnight that the first of the month begins with. *)
LEMMA BucketKeyMonth ==
  ASSUME NEW t PROVE BucketKey(t, "month") = StartOfDay(MonthStart[MonthOf(DayOf(t))])
BY DEF BucketKey

(* A key is an instant. *)
LEMMA BucketKeysAreTimes ==
  ASSUME NEW t \in Instants, NEW g \in Granularities
  PROVE  BucketKey(t, g) \in Int
<1>1. t \in Int /\ DayOf(t) \in Int /\ DayOf(t) \in CalendarDays
  BY InstantsHaveDays, DayOfTime
<1>2. CASE g = "hour"
  BY <1>1, <1>2, BucketKeyHour
<1>3. CASE g = "day"
  BY <1>1, <1>3, BucketKeyDay, DaysAdd
<1>4. CASE g = "week"
  <2>1. DayOf(t) - InWeek(DayOf(t)) \in Int
    BY <1>1, WeekdaysAreSeven
  <2> QED BY <1>4, <2>1, BucketKeyWeek, DaysAdd
<1>5. CASE g = "month"
  <2>1. MonthOf(DayOf(t)) \in 1..(Months + 1)
    BY <1>1, MonthOfDay, MonthsHaveLengths
  <2>2. MonthStart[MonthOf(DayOf(t))] \in Int
    BY <2>1, MonthsGrow
  <2> QED BY <1>5, <2>2, BucketKeyMonth, DaysAdd
<1> QED BY <1>2, <1>3, <1>4, <1>5 DEF Granularities

(* A week begins no later than its days, and less than seven days before.   *)
LEMMA TimesAreInTheirWeek ==
  ASSUME NEW t \in Int
  PROVE  /\ t - BucketKey(t, "week") \in 0..(7 * HoursInDay - 1)
         /\ BucketKey(t, "day") \in BucketKey(t, "week")..(BucketKey(t, "week") + StartOfDay(6))
<1>1. PICK day \in Int, w \in 0..6 : day = DayOf(t) /\ w = InWeek(day)
  BY DayOfTime, WeekdaysAreSeven
<1>2. /\ StartOfDay(day) \in Int /\ StartOfDay(day) <= t /\ t < StartOfDay(day) + HoursInDay
  BY <1>1, DayOfTime
<1>3. StartOfDay(day - w) = StartOfDay(day) - StartOfDay(w) /\ StartOfDay(w) \in Int
  BY <1>1, DaysAdd
<1>4. StartOfDay(w) \in 0..StartOfDay(6) /\ StartOfDay(6) = 6 * HoursInDay
  BY <1>1, HoursArePositive DEF StartOfDay
<1> QED BY <1>1, <1>2, <1>3, <1>4, HoursArePositive, BucketKeyWeek, BucketKeyDay

(* bucketSummaries(): the readings of each key, in the order of the keys. *)
KeysOf(A, g) == {BucketKey(r.time, g) : r \in A}
BucketOf(A, g, key) == {r \in A : BucketKey(r.time, g) = key}

(* Finitely many readings have finitely many keys. *)
LEMMA KeysAreFinite ==
  ASSUME NEW A, Readable(A), NEW g \in Granularities
  PROVE  KeysOf(A, g) \subseteq Int /\ IsFiniteSet(KeysOf(A, g))
<1>1. KeysOf(A, g) \subseteq Int
  BY BucketKeysAreTimes DEF Readable, KeysOf
<1>2. IsFiniteSet(KeysOf(A, g))
  <2>1. PICK f : f = [r \in A |-> BucketKey(r.time, g)]
    OBVIOUS
  <2>2. f \in Surjection(A, KeysOf(A, g))
    BY <2>1 DEF Surjection, KeysOf
  <2> QED BY <2>2, FS_Surjection DEF Readable
<1> QED BY <1>1, <1>2

AreBuckets(f, keys, A, g) ==
  /\ IsRows(f) /\ Len(f) = Cardinality(KeysOf(A, g)) /\ InOrder(keys, KeysOf(A, g))
  /\ \A i \in 1..Len(f) : f[i] = [key |-> keys[i], readings |-> BucketOf(A, g, keys[i])]

(* bucketSummaries() has a summary of each key, with the readings of that   *)
(* key.                                                                     *)
LEMMA SummariesAreBuckets ==
  ASSUME NEW A, Readable(A), NEW g \in Granularities, NEW f, f = BucketSummaries(A, g)
  PROVE  \E keys : AreBuckets(f, keys, A, g)
<1>1. PICK S : S = KeysOf(A, g)
  OBVIOUS
<1>2. InOrder(Ordered(S, <), S)
  <2>1. S \in SUBSET Int /\ IsFiniteSet(S)
    BY <1>1, KeysAreFinite
  <2> QED BY <2>1, OrderedInOrder, Zenon
<1>3. PICK keys : /\ InOrder(keys, S)
                  /\ f = [i \in DOMAIN keys |->
                            [key |-> keys[i], readings |-> BucketOf(A, g, keys[i])]]
  BY <1>1, <1>2, Zenon DEF BucketSummaries, KeysOf, BucketOf
<1>4. PICK c : c = Cardinality(S)
  OBVIOUS
<1>5. c \in Nat /\ DOMAIN keys = 1..c
  BY <1>3, <1>4 DEF InOrder
<1>6. /\ Len(f) = c /\ f = [i \in 1..c |-> f[i]]
      /\ \A i \in 1..c : f[i] = [key |-> keys[i], readings |-> BucketOf(A, g, keys[i])]
  BY <1>3, <1>5
<1> QED BY <1>1, <1>3, <1>4, <1>5, <1>6 DEF IsRows, AreBuckets

-----------------------------------------------------------------------------
(* The summaries *)

(* The days of a request, by the keys of their buckets. *)
IsDayOf(q, key) ==
  /\ q.startDate # Null => key >= StartOfDay(DayOf(q.startDate))
  /\ q.endDate # Null => key <= q.endDate

(* computeDailySummaries() has the days of the request, each with the       *)
(* total of its readings.                                                   *)
LEMMA DailyRows ==
  ASSUME NEW A, Readable(A), NEW q, NEW f, f = ComputeDailySummaries(A, q)
  PROVE  /\ IsRows(f)
         /\ \E keys, rows, K :
              /\ InOrder(keys, KeysOf(A, "day")) /\ IsRows(rows)
              /\ Len(rows) = Cardinality(KeysOf(A, "day"))
              /\ \A i \in 1..Len(rows) :
                   /\ "totalConsumption" \in DOMAIN rows[i]
                   /\ rows[i].totalConsumption = SumOf(BucketOf(A, "day", keys[i]))
              /\ K = {i \in 1..Len(rows) : IsDayOf(q, keys[i])} /\ Keeps(f, rows, K)
              /\ Len(f) = Cardinality(K)
<1>1. PICK g : g = BucketSummaries(A, "day")
  OBVIOUS
<1>2. PICK keys : AreBuckets(g, keys, A, "day")
  <2>1. "day" \in Granularities
    BY DEF Granularities
  <2> QED BY <1>1, <2>1, SummariesAreBuckets
<1>3. PICK rows :
        rows = [i \in DOMAIN g |->
                 LET s == g[i]
                 IN  [date |-> s.key,
                      totalConsumption |-> SumOf(s.readings),
                      averageConsumption |-> AggregateValues(Values(s.readings), "avg"),
                      peakConsumption |-> AggregateValues(Values(s.readings), "max"),
                      meterCount |-> MeterCount(s.readings)]]
  OBVIOUS
<1>4. Len(g) \in Nat /\ DOMAIN g = 1..Len(g)
  BY <1>2 DEF IsRows, AreBuckets
<1>5. /\ DOMAIN rows = DOMAIN g /\ Len(rows) = Len(g) /\ IsRows(rows)
  BY <1>3, <1>4 DEF IsRows
<1>6. ASSUME NEW i \in 1..Len(g)
      PROVE  /\ rows[i].date = keys[i] /\ "totalConsumption" \in DOMAIN rows[i]
             /\ rows[i].totalConsumption = SumOf(BucketOf(A, "day", keys[i]))
  BY <1>2, <1>3, <1>4 DEF AreBuckets
<1>7. PICK K : K = {i \in DOMAIN rows :
                      /\ q.startDate # Null => rows[i].date >= StartOfDay(DayOf(q.startDate))
                      /\ q.endDate # Null => rows[i].date <= q.endDate}
  OBVIOUS
<1>8. InOrder(Ordered(K, <), K)
  <2>1. K \subseteq 1..Len(g)
    BY <1>4, <1>5, <1>7
  <2> QED BY <1>4, <2>1, FinitePlaces, Zenon
<1>9. PICK kept : InOrder(kept, K) /\ f = [n \in DOMAIN kept |-> rows[kept[n]]]
  <2>1. f = Filtered(rows, LAMBDA row :
        /\ q.startDate # Null => row.date >= StartOfDay(DayOf(q.startDate))
        /\ q.endDate # Null => row.date <= q.endDate)
    BY <1>1, <1>3, Zenon DEF ComputeDailySummaries
  <2>2. f = [n \in DOMAIN Ordered(K, <) |-> rows[Ordered(K, <)[n]]]
    BY <1>7, <2>1, Zenon DEF Filtered
  <2> QED BY <1>8, <2>2, Zenon
<1>10. K = {i \in 1..Len(rows) : IsDayOf(q, keys[i])}
  BY <1>4, <1>5, <1>6, <1>7 DEF IsDayOf
<1>11. Keeps(f, rows, K) /\ IsRows(f) /\ Len(f) = Cardinality(K)
  BY <1>9, KeptPlaces
<1> QED BY <1>2, <1>5, <1>6, <1>10, <1>11 DEF AreBuckets

(* computeWeeklySummaries() has a row for each week with readings. *)
LEMMA WeeklyRows ==
  ASSUME NEW A, Readable(A), NEW f, f = ComputeWeeklySummaries(A)
  PROVE  /\ IsRows(f) /\ Len(f) = Cardinality(KeysOf(A, "week"))
         /\ \E keys : /\ InOrder(keys, KeysOf(A, "week"))
              /\ \A i \in 1..Len(f) :
                   /\ {"weekStart", "weekEnd", "totalConsumption", "peakDay"} \subseteq DOMAIN f[i]
                   /\ f[i].weekStart = keys[i] /\ f[i].weekEnd = keys[i] + StartOfDay(6)
                   /\ f[i].totalConsumption = SumOf(BucketOf(A, "week", keys[i]))
                   /\ f[i].peakDay = PeakDay(BucketOf(A, "week", keys[i]))
<1>1. PICK g : g = BucketSummaries(A, "week")
  OBVIOUS
<1>2. PICK keys : AreBuckets(g, keys, A, "week")
  <2>1. "week" \in Granularities
    BY DEF Granularities
  <2> QED BY <1>1, <2>1, SummariesAreBuckets
<1>3. f = [i \in DOMAIN g |->
             LET s == g[i]
             IN  [weekStart |-> s.key, weekEnd |-> s.key + StartOfDay(6),
                  totalConsumption |-> SumOf(s.readings),
                  averageDailyConsumption |->
                    Rounded(100 * SumOf(s.readings), Cardinality(DaysOf(s.readings))),
                  peakDay |-> PeakDay(s.readings), meterCount |-> MeterCount(s.readings)]]
  BY <1>1, Zenon DEF ComputeWeeklySummaries
<1>4. Len(g) \in Nat /\ DOMAIN g = 1..Len(g)
  BY <1>2 DEF IsRows, AreBuckets
<1>5. DOMAIN f = DOMAIN g /\ Len(f) = Len(g) /\ IsRows(f)
  BY <1>3, <1>4 DEF IsRows
<1>6. ASSUME NEW i \in 1..Len(g)
      PROVE  /\ {"weekStart", "weekEnd", "totalConsumption", "peakDay"} \subseteq DOMAIN f[i]
             /\ f[i].weekStart = keys[i] /\ f[i].weekEnd = keys[i] + StartOfDay(6)
             /\ f[i].totalConsumption = SumOf(BucketOf(A, "week", keys[i]))
             /\ f[i].peakDay = PeakDay(BucketOf(A, "week", keys[i]))
  BY <1>2, <1>3, <1>4 DEF AreBuckets
<1> QED BY <1>2, <1>5, <1>6 DEF AreBuckets

(* computeMonthlySummaries() has a row for each month with readings. *)
LEMMA MonthlyRows ==
  ASSUME NEW A, Readable(A), NEW f, f = ComputeMonthlySummaries(A)
  PROVE  /\ IsRows(f) /\ Len(f) = Cardinality(KeysOf(A, "month"))
         /\ \E keys : /\ InOrder(keys, KeysOf(A, "month"))
              /\ \A i \in 1..Len(f) :
                   /\ "totalConsumption" \in DOMAIN f[i]
                   /\ f[i].totalConsumption = SumOf(BucketOf(A, "month", keys[i]))
<1>1. PICK g : g = BucketSummaries(A, "month")
  OBVIOUS
<1>2. PICK keys : AreBuckets(g, keys, A, "month")
  <2>1. "month" \in Granularities
    BY DEF Granularities
  <2> QED BY <1>1, <2>1, SummariesAreBuckets
<1>3. f = [i \in DOMAIN g |->
             LET s == g[i]
             IN  [month |-> s.key, totalConsumption |-> SumOf(s.readings),
                  averageDailyConsumption |->
                    Rounded(100 * SumOf(s.readings), MonthLengths[MonthOf(DayOf(s.key))]),
                  peakDay |-> PeakDay(s.readings), meterCount |-> MeterCount(s.readings)]]
  BY <1>1, Zenon DEF ComputeMonthlySummaries
<1>4. Len(g) \in Nat /\ DOMAIN g = 1..Len(g)
  BY <1>2 DEF IsRows, AreBuckets
<1>5. DOMAIN f = DOMAIN g /\ Len(f) = Len(g) /\ IsRows(f)
  BY <1>3, <1>4 DEF IsRows
<1>6. ASSUME NEW i \in 1..Len(g)
      PROVE  /\ "totalConsumption" \in DOMAIN f[i]
             /\ f[i].totalConsumption = SumOf(BucketOf(A, "month", keys[i]))
  BY <1>2, <1>3, <1>4 DEF AreBuckets
<1> QED BY <1>2, <1>5, <1>6 DEF AreBuckets

-----------------------------------------------------------------------------
(* The report as rows *)

IsJoin(h, f, g) ==
  /\ IsRows(h) /\ Len(h) = Len(f) + Len(g)
  /\ \A i \in 1..Len(f) : h[i] = f[i]
  /\ \A i \in 1..Len(g) : h[Len(f) + i] = g[i]

(* What a concatenation holds. *)
LEMMA Joined ==
  ASSUME NEW f, IsRows(f), NEW g, IsRows(g)
  PROVE  IsJoin(f \o g, f, g)
<1>1. f \in Seq({f[i] : i \in 1..Len(f)}) /\ Len(f) \in Nat
  BY DEF IsRows
<1>2. g \in Seq({g[i] : i \in 1..Len(g)}) /\ Len(g) \in Nat
  BY DEF IsRows
<1>3. PICK D : f \in Seq(D) /\ g \in Seq(D)
  <2>1. f \in Seq({f[i] : i \in 1..Len(f)} \cup {g[i] : i \in 1..Len(g)})
    BY <1>1
  <2>2. g \in Seq({f[i] : i \in 1..Len(f)} \cup {g[i] : i \in 1..Len(g)})
    BY <1>2
  <2> QED BY <2>1, <2>2
<1>4. /\ f \o g \in Seq(D) /\ Len(f \o g) = Len(f) + Len(g)
      /\ \A i \in 1..Len(f) : (f \o g)[i] = f[i]
      /\ \A i \in 1..Len(g) : (f \o g)[Len(f) + i] = g[i]
  BY <1>1, <1>2, <1>3
<1>5. IsRows(f \o g)
  <2>1. PICK h \in Seq(D) : h = f \o g
    BY <1>4
  <2>2. IsRows(h)
    BY DEF IsRows
  <2> QED BY <2>1, <2>2
<1> QED BY <1>4, <1>5 DEF IsJoin

IsTagged(t, row, section) ==
  /\ DOMAIN t = DOMAIN row \cup {"_section"} /\ t._section = section
  /\ \A f \in DOMAIN row : f # "_section" => t[f] = row[f]

(* A tagged row has its own fields and its section. *)
LEMMA TaggedFields ==
  ASSUME NEW row, NEW section
  PROVE  IsTagged(Tagged(row, section), row, section)
BY DEF Tagged, IsTagged

SectionRows(report, s) == IF s \in DOMAIN report THEN report[s] ELSE << >>
TaggedRows(rows, s) == [i \in DOMAIN rows |-> Tagged(rows[i], s)]

(* Tagging keeps the number and the order of rows. *)
LEMMA TaggedRowsAreRows ==
  ASSUME NEW rows, IsRows(rows), NEW s, NEW f, f = TaggedRows(rows, s)
  PROVE  /\ IsRows(f) /\ Len(f) = Len(rows)
         /\ \A i \in 1..Len(f) : f[i] = Tagged(rows[i], s)
<1>1. Len(rows) \in Nat /\ DOMAIN rows = 1..Len(rows)
  BY DEF IsRows
<1> QED BY <1>1 DEF IsRows, TaggedRows

(* The rows of a report are those of its four sections. *)
LEMMA FlattenedPieces ==
  ASSUME NEW report
  PROVE  Flattened(report)
           = TaggedRows(SectionRows(report, "meters"), "meters")
             \o TaggedRows(SectionRows(report, "readings"), "readings")
             \o TaggedRows(SectionRows(report, "alerts"), "alerts")
             \o TaggedRows(SectionRows(report, "summary"), "summary")
BY DEF Flattened, TaggedRows, SectionRows

(* The query of buildSystemReport() selects every reading. *)
Everything == [startDate |-> Null, endDate |-> Null, meterIds |-> {}]

(* A query that asks for nothing in particular matches every reading. *)
LEMMA EverythingMatches ==
  ASSUME NEW A PROVE Matching(A, Everything) = A
BY DEF Matching, Everything

(* No location is every location. *)
LEMMA EveryMeter ==
  ASSUME NEW D, NEW list \in Seq(D)
  PROVE  IsRows(GetExportMeters(list, Null)) /\ Len(GetExportMeters(list, Null)) = Len(list)
<1>1. PICK K : K = {i \in DOMAIN list : Null # Null => list[i].location = Null}
  OBVIOUS
<1>2. IsRows(GetExportMeters(list, Null)) /\ Len(GetExportMeters(list, Null)) = Cardinality(K)
  BY <1>1, MetersAreKept
<1>3. K = 1..Len(list) /\ Len(list) \in Nat
  BY <1>1
<1>4. Cardinality(1..Len(list)) = Len(list)
  BY <1>3, FS_Interval
<1> QED BY <1>2, <1>3, <1>4

(* Each section of a report is a sequence of rows. *)
LEMMA SectionsAreRows ==
  ASSUME NEW A, Readable(A), NEW D, NEW list \in Seq(D), NEW sections, NEW report,
         report = BuildSystemReport(A, list, sections)
  PROVE  /\ IsRows(SectionRows(report, "meters")) /\ IsRows(SectionRows(report, "readings"))
         /\ IsRows(SectionRows(report, "alerts")) /\ IsRows(SectionRows(report, "summary"))
         /\ Len(SectionRows(report, "alerts")) = 0
         /\ "meters" \in sections => Len(SectionRows(report, "meters")) = Len(list)
         /\ "readings" \in sections => Len(SectionRows(report, "readings")) = Cardinality(A)
         /\ "summary" \in sections =>
              SectionRows(report, "summary")
                = <<[totalMeters |-> Len(list), totalReadings |-> Cardinality(A)]>>
<1>1. IsRows(<< >>) /\ Len(<< >>) = 0
  BY DEF IsRows
<1>2. /\ SectionRows(report, "meters")
           = IF "meters" \in sections THEN GetExportMeters(list, Null) ELSE << >>
      /\ SectionRows(report, "readings")
           = IF "readings" \in sections THEN GetExportReadings(A, Everything) ELSE << >>
      /\ SectionRows(report, "alerts") = << >>
      /\ SectionRows(report, "summary")
           = IF "summary" \in sections
             THEN <<[totalMeters |-> Len(list), totalReadings |-> Cardinality(A)]>> ELSE << >>
  BY DEF SectionRows, BuildSystemReport, Everything
<1>3. IsRows(GetExportMeters(list, Null)) /\ Len(GetExportMeters(list, Null)) = Len(list)
  BY EveryMeter
<1>4. IsRows(GetExportReadings(A, Everything))
      /\ Len(GetExportReadings(A, Everything)) = Cardinality(A)
  BY ReadingsAreRows, EverythingMatches
<1>5. IsRows(<<[totalMeters |-> Len(list), totalReadings |-> Cardinality(A)]>>)
  BY DEF IsRows
<1> QED BY <1>1, <1>2, <1>3, <1>4, <1>5

(* Where the sections of a whole report are. *)
IsReport(f, m, n) ==
  /\ m \in Nat /\ n \in Nat /\ Len(f) = m + n + 1
  /\ \A i \in 1..Len(f) :
       /\ "_section" \in DOMAIN f[i]
       /\ f[i]._section = IF i <= m THEN "meters" ELSE IF i <= m + n THEN "readings" ELSE "summary"
  /\ {"totalMeters", "totalReadings"} \subseteq DOMAIN f[m + n + 1]
  /\ f[m + n + 1].totalMeters = m /\ f[m + n + 1].totalReadings = n

(* buildSystemReport(): the summary counts the rows of the sections. *)
LEMMA ReportRows ==
  ASSUME NEW A, Readable(A), NEW D, NEW list \in Seq(D), NEW sections, NEW f,
         f = Flattened(BuildSystemReport(A, list, sections))
  PROVE  /\ IsRows(f)
         /\ {"meters", "readings", "summary"} \subseteq sections =>
              IsReport(f, Len(list), Cardinality(A))
<1>1. PICK report : report = BuildSystemReport(A, list, sections)
  OBVIOUS
<1>2. PICK ms, rs, as, ss :
        /\ ms = TaggedRows(SectionRows(report, "meters"), "meters")
        /\ rs = TaggedRows(SectionRows(report, "readings"), "readings")
        /\ as = TaggedRows(SectionRows(report, "alerts"), "alerts")
        /\ ss = TaggedRows(SectionRows(report, "summary"), "summary")
  OBVIOUS
<1>3. f = ms \o rs \o as \o ss
  BY <1>1, <1>2, FlattenedPieces
<1>4. /\ IsRows(SectionRows(report, "meters")) /\ IsRows(SectionRows(report, "readings"))
      /\ IsRows(SectionRows(report, "alerts")) /\ IsRows(SectionRows(report, "summary"))
      /\ Len(SectionRows(report, "alerts")) = 0
      /\ "meters" \in sections => Len(SectionRows(report, "meters")) = Len(list)
      /\ "readings" \in sections => Len(SectionRows(report, "readings")) = Cardinality(A)
      /\ "summary" \in sections =>
           SectionRows(report, "summary")
             = <<[totalMeters |-> Len(list), totalReadings |-> Cardinality(A)]>>
  BY <1>1, SectionsAreRows
<1>5. /\ IsRows(ms) /\ Len(ms) = Len(SectionRows(report, "meters"))
      /\ \A i \in 1..Len(ms) : ms[i] = Tagged(SectionRows(report, "meters")[i], "meters")
  BY <1>2, <1>4, TaggedRowsAreRows
<1>6. /\ IsRows(rs) /\ Len(rs) = Len(SectionRows(report, "readings"))
      /\ \A i \in 1..Len(rs) : rs[i] = Tagged(SectionRows(report, "readings")[i], "readings")
  BY <1>2, <1>4, TaggedRowsAreRows
<1>7. IsRows(as) /\ Len(as) = 0
  BY <1>2, <1>4, TaggedRowsAreRows
<1>8. /\ IsRows(ss) /\ Len(ss) = Len(SectionRows(report, "summary"))
      /\ \A i \in 1..Len(ss) : ss[i] = Tagged(SectionRows(report, "summary")[i], "summary")
  BY <1>2, <1>4, TaggedRowsAreRows
<1>9. PICK g : g = ms \o rs
  OBVIOUS
<1>10. /\ IsRows(g) /\ Len(g) = Len(ms) + Len(rs)
       /\ \A i \in 1..Len(ms) : g[i] = ms[i]
       /\ \A i \in 1..Len(rs) : g[Len(ms) + i] = rs[i]
  <2>1. IsJoin(g, ms, rs)
    BY <1>5, <1>6, <1>9, Joined
  <2> QED BY <2>1 DEF IsJoin
<1>11. PICK h : h = g \o as
  OBVIOUS
<1>12. /\ IsRows(h) /\ Len(h) = Len(g) + Len(as)
       /\ \A i \in 1..Len(g) : h[i] = g[i]
  <2>1. IsJoin(h, g, as)
    BY <1>7, <1>10, <1>11, Joined
  <2> QED BY <2>1 DEF IsJoin
<1>13. f = h \o ss
  BY <1>3, <1>9, <1>11
<1>14. /\ IsRows(f) /\ Len(f) = Len(h) + Len(ss)
       /\ \A i \in 1..Len(h) : f[i] = h[i]
       /\ \A i \in 1..Len(ss) : f[Len(h) + i] = ss[i]
  <2>1. IsJoin(f, h, ss)
    BY <1>8, <1>12, <1>13, Joined
  <2> QED BY <2>1 DEF IsJoin
<1>15. ASSUME {"meters", "readings", "summary"} \subseteq sections
       PROVE  IsReport(f, Len(list), Cardinality(A))
  <2>1. PICK m \in Nat, n \in Nat : m = Len(ms) /\ n = Len(rs)
    BY <1>5, <1>6 DEF IsRows
  <2>2. m = Len(list) /\ n = Cardinality(A)
    BY <1>4, <1>5, <1>6, <1>15, <2>1
  <2>3. Len(ss) = 1 /\ ss[1] = Tagged([totalMeters |-> m, totalReadings |-> n], "summary")
    BY <1>4, <1>8, <1>15, <2>2
  <2>4. Len(h) = m + n /\ Len(f) = m + n + 1
    BY <1>7, <1>10, <1>12, <1>14, <2>1, <2>3
  <2>5. ASSUME NEW i \in 1..m PROVE "_section" \in DOMAIN f[i] /\ f[i]._section = "meters"
    <3>1. f[i] = ms[i]
      <4>1. i \in 1..Len(ms) /\ i \in 1..Len(g) /\ i \in 1..Len(h)
        BY <1>7, <1>10, <2>1, <2>4
      <4> QED BY <1>10, <1>12, <1>14, <4>1
    <3>2. f[i] = Tagged(SectionRows(report, "meters")[i], "meters")
      BY <1>5, <2>1, <3>1
    <3>3. IsTagged(f[i], SectionRows(report, "meters")[i], "meters")
      BY <3>2, TaggedFields
    <3> QED BY <3>3 DEF IsTagged
  <2>6. ASSUME NEW i \in (m + 1)..(m + n)
        PROVE  "_section" \in DOMAIN f[i] /\ f[i]._section = "readings"
    <3>1. PICK j \in 1..n : i = m + j
      <4>1. i - m \in 1..n /\ i = m + (i - m)
        BY <2>6
      <4> QED BY <4>1
    <3>2. f[i] = rs[j]
      <4>1. /\ j \in 1..Len(rs) /\ i = Len(ms) + j
            /\ i \in 1..Len(g) /\ i \in 1..Len(h)
        BY <1>7, <1>10, <1>12, <2>1, <2>4, <3>1
      <4>2. f[i] = h[i] /\ h[i] = g[i]
        BY <1>12, <1>14, <4>1
      <4>3. g[i] = rs[j]
        BY <1>10, <4>1
      <4> QED BY <4>2, <4>3
    <3>3. f[i] = Tagged(SectionRows(report, "readings")[j], "readings")
      BY <1>6, <2>1, <3>2
    <3>4. IsTagged(f[i], SectionRows(report, "readings")[j], "readings")
      BY <3>3, TaggedFields
    <3> QED BY <3>4 DEF IsTagged
  <2>7. f[m + n + 1] = Tagged([totalMeters |-> m, totalReadings |-> n], "summary")
    BY <1>14, <2>3, <2>4
  <2>8. /\ "_section" \in DOMAIN f[m + n + 1] /\ f[m + n + 1]._section = "summary"
        /\ {"totalMeters", "totalReadings"} \subseteq DOMAIN f[m + n + 1]
        /\ f[m + n + 1].totalMeters = m /\ f[m + n + 1].totalReadings = n
    <3>1. IsTagged(f[m + n + 1], [totalMeters |-> m, totalReadings |-> n], "summary")
      BY <2>7, TaggedFields
    <3> QED BY <3>1 DEF IsTagged
  <2>9. ASSUME NEW i \in 1..Len(f)
        PROVE  /\ "_section" \in DOMAIN f[i]
               /\ f[i]._section = IF i <= m THEN "meters"
                                  ELSE IF i <= m + n THEN "readings" ELSE "summary"
    <3>1. i \in 1..m \/ i \in (m + 1)..(m + n) \/ i = m + n + 1
      BY <2>4
    <3> QED BY <2>5, <2>6, <2>8, <3>1
  <2> QED BY <2>2, <2>4, <2>8, <2>9 DEF IsReport
<1> QED BY <1>14, <1>15

-----------------------------------------------------------------------------
(* The invariant of the exports *)

UniqueIds == \A r, s \in ingested : r.id = s.id => r = s

Device == [deviceId : DeviceIds, location : Locations]

(* Chunks written before the first row. *)
Opening(q) == IF q.format = "json" THEN 1 ELSE 0

Chunk(L, q, i) ==
  [row |-> FilterFields(L[i], Columns(q)), comma |-> q.format = "json" /\ i > 1]

(* The body b begins with the first n of the rows L. *)
Holds(b, L, q, n) ==
  /\ IsRows(b) /\ n \in 0..Len(L) /\ Len(b) >= Opening(q) + n
  /\ q.format = "json" => b[1] = [text |-> "["]
  /\ \A i \in 1..n : b[Opening(q) + i] = Chunk(L, q, i)

(* The rows of L after the first n. *)
Remain(s, L, n) ==
  /\ s \in Seq({L[i] : i \in 1..Len(L)}) /\ Len(s) = Len(L) - n
  /\ \A i \in 1..Len(s) : s[i] = L[n + i]

(* n rows are written and the others are to come. *)
Between(L, q, n, b, s) ==
  n \in 0..Len(L) /\ Holds(b, L, q, n) /\ Len(b) = Opening(q) + n /\ Remain(s, L, n)

StreamInv(L) ==
  /\ IsRows(L)
  /\ phase = "streaming" => \E n \in 0..Len(L) : Between(L, request, n, body, source)
  /\ phase = "ended" =>
       /\ Holds(body, L, request, Len(L))
       /\ IF request.format = "json"
          THEN Len(body) = Len(L) + 2 /\ body[Len(L) + 2] = [text |-> "]"]
          ELSE Len(body) = Len(L)

AnswerInv ==
  /\ phase \in {"idle", "streaming", "ended", "rejected"}
  /\ phase \in {"streaming", "ended"} =>
       /\ request \in Requests /\ asked.devices \in Seq(Device)
       /\ Readable(asked.readings)
       /\ Streams(request) => StreamInv(ExportRows(asked.readings, asked.devices, request))
       /\ ~ Streams(request) =>
            phase = "ended" /\ body = <<Answer(asked.readings, asked.devices, request)>>

ExportsInv == StoreInv /\ UniqueIds /\ devices \in Seq(Device) /\ AnswerInv

(* A batch of readings brings ids that were never used. *)
LEMMA UniqueInBatch ==
  ASSUME StoreInv, UniqueIds, Ingest
  PROVE  UniqueIds'
<1>1. PICK n \in 1..(MaxReadings + 1 - nextId) :
        \E days \in [1..n -> 0..today] : AddReadings(days)
  BY DEF Ingest
<1>0. PICK days \in [1..n -> 0..today] : AddReadings(days)
  BY <1>1
<1>2. PICK stored :
        stored = {[id |-> nextId + i - 1, day |-> days[i], boot |-> boot] : i \in DOMAIN days}
  OBVIOUS
<1>3. ingested' = ingested \cup stored
  BY <1>0, <1>2 DEF AddReadings
<1>4. nextId \in Int
  BY CountsAreNat DEF StoreInv, StoreTypeOK
<1>5. ASSUME NEW r \in stored, NEW s \in stored, r.id = s.id PROVE r = s
  <2>1. PICK i \in 1..n, j \in 1..n :
          /\ r = [id |-> nextId + i - 1, day |-> days[i], boot |-> boot]
          /\ s = [id |-> nextId + j - 1, day |-> days[j], boot |-> boot]
    BY <1>2, <1>5
  <2>2. i = j
    BY <1>4, <1>5, <2>1
  <2> QED BY <2>1, <2>2
<1>6. ASSUME NEW r \in ingested, NEW s \in stored PROVE r.id # s.id
  <2>1. PICK i \in 1..n : s = [id |-> nextId + i - 1, day |-> days[i], boot |-> boot]
    BY <1>2, <1>6
  <2>2. r.id < nextId /\ r.id \in Int
    BY <1>6, CountsAreNat DEF StoreInv, StoreTypeOK, Reading
  <2> QED BY <1>4, <2>1, <2>2
<1> QED BY <1>3, <1>5, <1>6 DEF UniqueIds

(* What a request reads of the store is readable. *)
LEMMA RowsAreReadable ==
  ASSUME StoreInv, UniqueIds
  PROVE  Readable(Rows(readings))
<1>1. IsFiniteSet(readings) /\ readings \in SUBSET Reading
  BY ReadingsAreCounted
<1>2. PICK f : f = [r \in readings |->
                      [id |-> r.id, meterId |-> MeterOf[r.id], value |-> ValueOf[r.id],
                       time |-> StartOfDay(r.day) + HourOf[r.id]]]
  OBVIOUS
<1>3. Rows(readings) = {f[r] : r \in readings}
  BY <1>2 DEF Rows
<1>4. IsFiniteSet(Rows(readings))
  <2>1. f \in Surjection(readings, Rows(readings))
    BY <1>2, <1>3 DEF Surjection
  <2> QED BY <1>1, <2>1, FS_Surjection
<1>5. ASSUME NEW r \in readings
      PROVE  /\ f[r].id = r.id /\ f[r].id \in 1..MaxReadings /\ f[r].value \in Int
             /\ f[r].time \in Instants
  <2>1. r.id \in 1..MaxReadings /\ r.day \in 0..MaxDay
    BY <1>1, <1>5 DEF Reading, Days
  <2>2. /\ f[r].id = r.id /\ f[r].value = ValueOf[r.id]
        /\ f[r].time = StartOfDay(r.day) + HourOf[r.id]
    BY <1>2, <1>5
  <2>3. ValueOf[r.id] \in Int /\ HourOf[r.id] \in 0..(HoursInDay - 1)
    BY <2>1, PayloadAssumption DEF PayloadAssumption
  <2>4. StartOfDay(r.day) + HourOf[r.id] \in Instants
    <3>1. r.day \in Int /\ MaxDay + 1 \in Int /\ 0 \in Int /\ r.day < MaxDay + 1
      BY <2>1, CountsAreNat
    <3>2. /\ StartOfDay(r.day) \in Int /\ StartOfDay(MaxDay + 1) \in Int
          /\ StartOfDay(r.day) + HoursInDay <= StartOfDay(MaxDay + 1)
      <4>1. StartOfDay(r.day) \in Int
        BY <3>1, DaysAdd
      <4>2. StartOfDay(MaxDay + 1) \in Int
        BY <3>1, DaysAdd
      <4>3. StartOfDay(r.day) + HoursInDay <= StartOfDay(MaxDay + 1)
        BY <3>1, DaysInOrder
      <4> QED BY <4>1, <4>2, <4>3
    <3>3. StartOfDay(r.day) + HourOf[r.id] \in Int
          /\ DayOf(StartOfDay(r.day) + HourOf[r.id]) = r.day
      <4>1. PICK t \in Int : t = StartOfDay(r.day) + HourOf[r.id]
        BY <2>3, <3>2
      <4>2. StartOfDay(r.day) <= t /\ t < StartOfDay(r.day) + HoursInDay
        BY <2>3, <3>2, <4>1, HoursArePositive
      <4> QED BY <3>1, <4>1, <4>2, DayIsUnique
    <3>4. r.day \in CalendarDays
      <4>1. StartOfDay(MaxDay + 1) - 1 \in Instants
        BY PayloadAssumption DEF PayloadAssumption
      <4>2. DayOf(StartOfDay(MaxDay + 1) - 1) = MaxDay
        <5>1. StartOfDay(MaxDay + 1) = StartOfDay(MaxDay) + HoursInDay
          BY CountsAreNat, NextDayStarts
        <5>3. DayOf(StartOfDay(MaxDay) + HoursInDay - 1) = MaxDay
          BY CountsAreNat, DayOfStart
        <5>2. MaxDay \in Int
          BY CountsAreNat
        <5>4. StartOfDay(MaxDay) \in Int
          BY <5>2, DaysAdd
        <5> QED BY <5>1, <5>3, <5>4, HoursArePositive
      <4>3. MaxDay \in CalendarDays
        BY <4>1, <4>2, InstantsHaveDays
      <4> QED BY <2>1, <4>3, CountsAreNat, MonthsGrow, MonthsHaveLengths DEF CalendarDays
    <3> QED BY <3>3, <3>4, InstantsHaveDays
  <2> QED BY <2>1, <2>2, <2>3, <2>4
<1>6. ASSUME NEW r \in readings, NEW s \in readings, f[r].id = f[s].id PROVE r = s
  BY <1>5, <1>6 DEF UniqueIds, StoreInv, StoreTypeOK
<1> QED BY <1>3, <1>4, <1>5, <1>6 DEF Readable

(* Whatever is exported is a sequence of rows. *)
LEMMA ExportRowsAreRows ==
  ASSUME NEW A, Readable(A), NEW list \in Seq(Device), NEW q, Streams(q)
  PROVE  IsRows(ExportRows(A, list, q))
<1>1. CASE q.kind = "readings"
  <2>1. ExportRows(A, list, q) = GetExportReadings(A, q)
    BY <1>1 DEF ExportRows
  <2> QED BY <2>1, ReadingsAreRows
<1>2. CASE q.kind = "daily"
  <2>1. ExportRows(A, list, q) = ComputeDailySummaries(A, q)
    BY <1>2 DEF ExportRows
  <2> QED BY <2>1, DailyRows
<1>3. CASE q.kind = "weekly"
  <2>1. ExportRows(A, list, q) = ComputeWeeklySummaries(A)
    BY <1>3 DEF ExportRows
  <2> QED BY <2>1, WeeklyRows
<1>4. CASE q.kind = "monthly"
  <2>1. ExportRows(A, list, q) = ComputeMonthlySummaries(A)
    BY <1>4 DEF ExportRows
  <2> QED BY <2>1, MonthlyRows
<1>5. CASE q.kind = "meters"
  <2>1. ExportRows(A, list, q) = GetExportMeters(list, q.location)
    BY <1>5 DEF ExportRows
  <2> QED BY <2>1, MetersAreKept
<1>6. CASE q.kind = "report"
  <2>1. ExportRows(A, list, q) = Flattened(BuildSystemReport(A, list, q.sections))
    BY <1>6 DEF ExportRows
  <2> QED BY <2>1, ReportRows
<1> QED BY <1>1, <1>2, <1>3, <1>4, <1>5, <1>6 DEF Streams

(* It holds at the start. *)
LEMMA InitExportsInv == Init => ExportsInv
<1> SUFFICES ASSUME Init PROVE ExportsInv
  OBVIOUS
<1>1. StoreInv
  BY InitStoreInv DEF Init
<1>2. UniqueIds
  BY DEF Init, StoreInit, UniqueIds
<1>3. devices \in Seq(Device)
  BY DEF Init
<1>4. AnswerInv
  BY DEF Init, AnswerInv
<1> QED BY <1>1, <1>2, <1>3, <1>4 DEF ExportsInv

(* A request takes its rows at once. *)
LEMMA AskKeepsAnswerInv ==
  ASSUME ExportsInv, NEW q \in Requests, Ask(q)
  PROVE  AnswerInv'
<1>1. /\ request' = q /\ asked'.readings = Rows(readings) /\ asked'.devices = devices
  BY DEF Ask
<1>2. /\ Readable(asked'.readings) /\ asked'.devices \in Seq(Device)
  BY <1>1, RowsAreReadable DEF ExportsInv
<1>3. CASE phase' = "rejected"
  BY <1>3 DEF AnswerInv
<1>4. CASE phase' = "streaming"
  <2>1. /\ Streams(q)
        /\ source' = ExportRows(Rows(readings), devices, q)
        /\ body' = IF q.format = "json" THEN <<[text |-> "["]>> ELSE << >>
    BY <1>4 DEF Ask
  <2>2. PICK L : L = ExportRows(Rows(readings), devices, q)
    OBVIOUS
  <2>3. IsRows(L)
    BY <1>1, <1>2, <2>1, <2>2, ExportRowsAreRows
  <2>4. Holds(body', L, q, 0) /\ Len(body') = Opening(q)
    BY <2>1, <2>3 DEF Holds, IsRows, Opening
  <2>5. Remain(source', L, 0)
    <3>1. L \in Seq({L[i] : i \in 1..Len(L)}) /\ Len(L) \in Nat
      BY <2>3 DEF IsRows
    <3> QED BY <2>1, <2>2, <3>1 DEF Remain
  <2>6. 0 \in 0..Len(L) /\ Len(body') = Opening(q) + 0
    BY <2>3, <2>4 DEF IsRows, Opening
  <2>7. StreamInv(L)'
    BY <1>1, <1>4, <2>3, <2>4, <2>5, <2>6 DEF StreamInv, Between
  <2>8. StreamInv(ExportRows(asked.readings, asked.devices, request))'
    BY <1>1, <2>2, <2>7
  <2> QED BY <1>1, <1>2, <1>4, <2>1, <2>8 DEF AnswerInv
<1>5. CASE phase' = "ended"
  <2>1. ~ Streams(q) /\ body' = <<Answer(Rows(readings), devices, q)>>
    BY <1>5 DEF Ask
  <2> QED BY <1>1, <1>2, <1>5, <2>1 DEF AnswerInv
<1> QED BY <1>3, <1>4, <1>5 DEF Ask

(* One row less to come is one row more in the body. *)
LEMMA OneRowWritten ==
  ASSUME NEW L, IsRows(L), NEW q, NEW n, NEW b, NEW s, Between(L, q, n, b, s), s # << >>
  PROVE  Between(L, q, n + 1,
                 Append(b, [row |-> FilterFields(Head(s), Columns(q)),
                            comma |-> q.format = "json" /\ Len(b) > 1]), Tail(s))
<1>0. /\ n \in 0..Len(L) /\ Holds(b, L, q, n)
      /\ Len(b) = Opening(q) + n /\ Remain(s, L, n)
  BY DEF Between
<1>1. Len(L) \in Nat /\ Opening(q) \in 0..1 /\ (q.format = "json" <=> Opening(q) = 1)
  BY DEF IsRows, Opening
<1>2. /\ s \in Seq({L[i] : i \in 1..Len(L)}) /\ Len(s) = Len(L) - n
      /\ \A i \in 1..Len(s) : s[i] = L[n + i]
  BY <1>0 DEF Remain
<1>3. Len(s) \in Nat /\ Len(s) > 0 /\ Head(s) = s[1]
  BY <1>2
<1>4. n \in Nat /\ n + 1 \in 0..Len(L) /\ Head(s) = L[n + 1]
  BY <1>0, <1>1, <1>2, <1>3
<1>5. Remain(Tail(s), L, n + 1)
  <2>1. /\ Tail(s) \in Seq({L[i] : i \in 1..Len(L)}) /\ Len(Tail(s)) = Len(s) - 1
        /\ \A i \in 1..(Len(s) - 1) : Tail(s)[i] = s[i + 1]
    BY <1>2, <1>3
  <2>2. ASSUME NEW i \in 1..(Len(s) - 1) PROVE Tail(s)[i] = L[n + 1 + i]
    <3>1. i + 1 \in 1..Len(s) /\ n + (i + 1) = n + 1 + i
      BY <1>3, <1>4
    <3>2. s[i + 1] = L[n + (i + 1)]
      BY <1>2, <3>1
    <3> QED BY <2>1, <3>1, <3>2
  <2>3. Len(Tail(s)) = Len(L) - (n + 1) /\ Len(s) - 1 = Len(Tail(s))
    BY <1>1, <1>2, <1>4, <2>1
  <2>4. \A i \in 1..Len(Tail(s)) : Tail(s)[i] = L[n + 1 + i]
    BY <2>2, <2>3
  <2> QED BY <2>1, <2>3, <2>4, Zenon DEF Remain
<1>6. PICK e : e = [row |-> FilterFields(Head(s), Columns(q)),
                    comma |-> q.format = "json" /\ Len(b) > 1]
  OBVIOUS
<1>7. e = Chunk(L, q, n + 1)
  <2>1. q.format = "json" => (Len(b) > 1 <=> n + 1 > 1)
    BY <1>0, <1>1, <1>4
  <2> QED BY <1>4, <1>6, <2>1 DEF Chunk
<1>8. PICK len \in Nat : len = Len(b) /\ b = [i \in 1..len |-> b[i]]
  BY <1>0 DEF Holds, IsRows
<1>9a. PICK b2 : b2 = Append(b, e)
  OBVIOUS
<1>9. b2 = [i \in 1..(len + 1) |-> IF i = len + 1 THEN e ELSE b[i]]
  BY <1>8, <1>9a, Appended
<1>10. /\ IsRows(b2) /\ Len(b2) = len + 1 /\ b2[len + 1] = e
       /\ \A i \in 1..len : b2[i] = b[i]
  BY <1>8, <1>9 DEF IsRows
<1>11. len = Opening(q) + n /\ len + 1 = Opening(q) + (n + 1)
  BY <1>0, <1>1, <1>4, <1>8
<1>12. ASSUME NEW i \in 1..(n + 1) PROVE b2[Opening(q) + i] = Chunk(L, q, i)
  <2>1. CASE i = n + 1
    BY <1>7, <1>10, <1>11, <2>1
  <2>2. CASE i # n + 1
    <3>1. i \in 1..n /\ Opening(q) + i \in 1..len
      BY <1>1, <1>4, <1>11, <2>2
    <3> QED BY <1>0, <1>10, <3>1 DEF Holds
  <2> QED BY <2>1, <2>2
<1>13. ASSUME q.format = "json" PROVE b2[1] = [text |-> "["]
  <2>1. 1 \in 1..len
    BY <1>1, <1>4, <1>8, <1>11, <1>13
  <2> QED BY <1>0, <1>10, <1>13, <2>1 DEF Holds
<1>14. Holds(b2, L, q, n + 1)
  BY <1>1, <1>4, <1>10, <1>11, <1>12, <1>13 DEF Holds
<1>15. Between(L, q, n + 1, b2, Tail(s))
  BY <1>4, <1>5, <1>10, <1>11, <1>14 DEF Between
<1> QED BY <1>6, <1>9a, <1>15

(* A turn of the stream moves one row from what is to come to what is       *)
(* written.                                                                 *)
LEMMA DataKeepsAnswerInv ==
  ASSUME AnswerInv, Data
  PROVE  AnswerInv'
<1>1. PICK L : L = ExportRows(asked.readings, asked.devices, request)
  OBVIOUS
<1>2. /\ phase = "streaming" /\ phase' = "streaming" /\ source # << >>
      /\ request' = request /\ asked' = asked /\ source' = Tail(source)
      /\ body' = Append(body, [row |-> FilterFields(Head(source), Columns(request)),
                               comma |-> request.format = "json" /\ Len(body) > 1])
  BY DEF Data
<1>3. Streams(request) /\ StreamInv(L)
  BY <1>1, <1>2 DEF AnswerInv
<1>4. PICK n : Between(L, request, n, body, source)
  BY <1>2, <1>3 DEF StreamInv
<1>5. Between(L, request, n + 1, body', source')
  <2>1. IsRows(L)
    BY <1>3 DEF StreamInv
  <2> QED BY <1>2, <1>4, <2>1, OneRowWritten
<1>6. StreamInv(L)'
  <2>1. n + 1 \in 0..Len(L)
    BY <1>5 DEF Between
  <2> QED BY <1>2, <1>3, <1>5, <2>1 DEF StreamInv
<1>7. StreamInv(ExportRows(asked.readings, asked.devices, request))'
  BY <1>1, <1>2, <1>6
<1> QED BY <1>2, <1>3, <1>7 DEF AnswerInv

(* The end of the stream closes the bracket of a JSON export. *)
LEMMA EndKeepsAnswerInv ==
  ASSUME AnswerInv, End
  PROVE  AnswerInv'
<1>1. PICK L : L = ExportRows(asked.readings, asked.devices, request)
  OBVIOUS
<1>2. /\ phase = "streaming" /\ phase' = "ended" /\ source = << >>
      /\ request' = request /\ asked' = asked
      /\ body' = IF request.format = "json" THEN Append(body, [text |-> "]"]) ELSE body
  BY DEF End
<1>3. Streams(request) /\ StreamInv(L)
  BY <1>1, <1>2 DEF AnswerInv
<1>4. PICK n \in 0..Len(L) : /\ Holds(body, L, request, n) /\ Remain(source, L, n)
                             /\ Len(body) = Opening(request) + n
  BY <1>2, <1>3 DEF StreamInv, Between
<1>5. n = Len(L) /\ Len(L) \in Nat
  BY <1>2, <1>3, <1>4 DEF Remain, StreamInv, IsRows
<1>6. CASE request.format # "json"
  <2>1. Len(body) = Len(L) /\ body' = body
    BY <1>2, <1>4, <1>5, <1>6 DEF Opening
  <2>2. StreamInv(L)'
    BY <1>2, <1>3, <1>4, <1>5, <1>6, <2>1 DEF StreamInv
  <2>3. StreamInv(ExportRows(asked.readings, asked.devices, request))'
    BY <1>1, <1>2, <2>2
  <2> QED BY <1>2, <1>3, <2>3 DEF AnswerInv
<1>7. CASE request.format = "json"
  <2>1. PICK len \in Nat : len = Len(body) /\ body = [i \in 1..len |-> body[i]]
    BY <1>4 DEF Holds, IsRows
  <2>2. len = Len(L) + 1 /\ Opening(request) = 1
    BY <1>4, <1>5, <1>7, <2>1 DEF Opening
  <2>3. body' = [i \in 1..(len + 1) |-> IF i = len + 1 THEN [text |-> "]"] ELSE body[i]]
    BY <1>2, <1>7, <2>1, Appended
  <2>4. /\ IsRows(body') /\ Len(body') = len + 1 /\ body'[len + 1] = [text |-> "]"]
        /\ \A i \in 1..len : body'[i] = body[i]
    BY <2>1, <2>3 DEF IsRows
  <2>5. body'[1] = [text |-> "["]
    BY <1>4, <1>5, <1>7, <2>2, <2>4 DEF Holds
  <2>6. ASSUME NEW i \in 1..Len(L) PROVE body'[1 + i] = Chunk(L, request, i)
    <3>1. 1 + i \in 1..len
      BY <1>5, <2>2
    <3> QED BY <1>4, <1>5, <2>2, <2>4, <3>1 DEF Holds
  <2>7. Holds(body', L, request, Len(L))
    BY <1>5, <1>7, <2>2, <2>4, <2>5, <2>6 DEF Holds
  <2>8. Len(body') = Len(L) + 2 /\ body'[Len(L) + 2] = [text |-> "]"]
    BY <1>5, <2>2, <2>4
  <2>9. StreamInv(L)'
    BY <1>2, <1>3, <1>7, <2>7, <2>8 DEF StreamInv
  <2>10. StreamInv(ExportRows(asked.readings, asked.devices, request))'
    BY <1>1, <1>2, <2>9
  <2> QED BY <1>2, <1>3, <2>10 DEF AnswerInv
<1> QED BY <1>6, <1>7

(* A new request finds nothing of the old one. *)
LEMMA CloseKeepsAnswerInv ==
  ASSUME AnswerInv, Close
  PROVE  AnswerInv'
BY DEF Close, AnswerInv

(* What leaves the answer alone leaves what was asked alone. *)
LEMMA AnswerRests ==
  ASSUME AnswerInv, UNCHANGED answerVars
  PROVE  AnswerInv'
<1>1. /\ request' = request /\ phase' = phase /\ source' = source /\ body' = body
      /\ asked' = asked
  BY DEF answerVars
<1>2. PICK L : L = ExportRows(asked.readings, asked.devices, request)
  OBVIOUS
<1>3. StreamInv(L) => StreamInv(L)'
  BY <1>1 DEF StreamInv
<1>4. StreamInv(ExportRows(asked.readings, asked.devices, request))
        => StreamInv(ExportRows(asked.readings, asked.devices, request))'
  BY <1>1, <1>2, <1>3
<1> QED BY <1>1, <1>4 DEF AnswerInv

(* What leaves the store alone leaves its ids unique. *)
LEMMA StoreRests ==
  ASSUME StoreInv, UniqueIds, UNCHANGED storeVars
  PROVE  StoreInv' /\ UniqueIds'
BY StoreKeepsStoreInv DEF storeVars, UniqueIds

(* Readings that come, age out or are evicted leave ids unique. *)
LEMMA StoreStepKeepsIds ==
  ASSUME StoreInv, UniqueIds, StoreStep
  PROVE  StoreInv' /\ UniqueIds'
<1>1. StoreInv'
  BY IngestKeepsStoreInv, PruneKeepsStoreInv, NextDayKeepsStoreInv DEF StoreStep
<1>2. UniqueIds'
  <2>1. CASE Ingest
    BY <2>1, UniqueInBatch
  <2>2. CASE PruneOldReadings \/ NextDay
    BY <2>2 DEF PruneOldReadings, NextDay, UniqueIds
  <2> QED BY <2>1, <2>2 DEF StoreStep
<1> QED BY <1>1, <1>2

(* PATCH and POST keep the registry a list of devices. *)
LEMMA DeviceChanged ==
  ASSUME devices \in Seq(Device), NEW i \in DOMAIN devices, NEW place \in Locations
  PROVE  [devices EXCEPT ![i].location = place] \in Seq(Device)
<1>1. i \in 1..Len(devices) /\ Len(devices) \in Nat /\ devices[i] \in Device
  OBVIOUS
<1>2. [devices[i] EXCEPT !.location = place] \in Device
  BY <1>1 DEF Device
<1> QED BY <1>1, <1>2

(* DELETE keeps it one. *)
LEMMA DeviceRemoved ==
  ASSUME devices \in Seq(Device), NEW i \in DOMAIN devices
  PROVE  SubSeq(devices, 1, i - 1) \o SubSeq(devices, i + 1, Len(devices)) \in Seq(Device)
<1>1. i \in 1..Len(devices) /\ Len(devices) \in Nat
  OBVIOUS
<1>2. /\ SubSeq(devices, 1, i - 1) \in Seq(Device)
      /\ SubSeq(devices, i + 1, Len(devices)) \in Seq(Device)
  BY <1>1
<1> QED BY <1>2

(* No step breaks the invariant: one case per action. *)
LEMMA NextKeepsExportsInv == ExportsInv /\ [Next]_vars => ExportsInv'
<1> SUFFICES ASSUME ExportsInv, [Next]_vars PROVE ExportsInv'
  OBVIOUS
<1>0. StoreInv /\ UniqueIds /\ devices \in Seq(Device) /\ AnswerInv
  BY DEF ExportsInv
<1>1. CASE StoreStep /\ UNCHANGED <<adminVars, answerVars>>
  <2>1. devices' = devices /\ UNCHANGED answerVars
    BY <1>1 DEF adminVars
  <2> QED BY <1>0, <1>1, <2>1, StoreStepKeepsIds, AnswerRests DEF ExportsInv
<1>2. ASSUME NEW q \in Requests, Ask(q) PROVE ExportsInv'
  <2>1. devices' = devices /\ UNCHANGED storeVars
    BY <1>2 DEF Ask, adminVars
  <2> QED BY <1>0, <1>2, <2>1, StoreRests, AskKeepsAnswerInv DEF ExportsInv
<1>3. CASE Data
  <2>1. devices' = devices /\ UNCHANGED storeVars
    BY <1>3 DEF Data, adminVars
  <2> QED BY <1>0, <1>3, <2>1, StoreRests, DataKeepsAnswerInv DEF ExportsInv
<1>4. CASE End
  <2>1. devices' = devices /\ UNCHANGED storeVars
    BY <1>4 DEF End, adminVars
  <2> QED BY <1>0, <1>4, <2>1, StoreRests, EndKeepsAnswerInv DEF ExportsInv
<1>5. CASE Close
  <2>1. devices' = devices /\ UNCHANGED storeVars
    BY <1>5 DEF Close, adminVars
  <2> QED BY <1>0, <1>5, <2>1, StoreRests, CloseKeepsAnswerInv DEF ExportsInv
<1>6. ASSUME NEW d \in DeviceIds, NEW place \in Locations, RegisterDevice(d, place)
      PROVE  ExportsInv'
  <2>1. devices' \in Seq(Device) /\ UNCHANGED storeVars /\ UNCHANGED answerVars
    BY <1>0, <1>6 DEF RegisterDevice, Device
  <2> QED BY <1>0, <2>1, StoreRests, AnswerRests DEF ExportsInv
<1>7. ASSUME NEW i \in DOMAIN devices, NEW place \in Locations, UpdateDevice(i, place)
      PROVE  ExportsInv'
  <2>1. devices' = [devices EXCEPT ![i].location = place]
        /\ UNCHANGED storeVars /\ UNCHANGED answerVars
    BY <1>7 DEF UpdateDevice
  <2>2. devices' \in Seq(Device)
    BY <1>0, <1>7, <2>1, DeviceChanged
  <2> QED BY <1>0, <2>1, <2>2, StoreRests, AnswerRests DEF ExportsInv
<1>8. ASSUME NEW i \in DOMAIN devices, RemoveDevice(i) PROVE ExportsInv'
  <2>1. devices' = SubSeq(devices, 1, i - 1) \o SubSeq(devices, i + 1, Len(devices))
        /\ UNCHANGED storeVars /\ UNCHANGED answerVars
    BY <1>8 DEF RemoveDevice
  <2>2. devices' \in Seq(Device)
    BY <1>0, <1>8, <2>1, DeviceRemoved
  <2> QED BY <1>0, <2>1, <2>2, StoreRests, AnswerRests DEF ExportsInv
<1>9. CASE UNCHANGED vars
  <2>1. UNCHANGED storeVars /\ devices' = devices /\ UNCHANGED answerVars
    BY <1>9 DEF vars, adminVars
  <2> QED BY <1>0, <2>1, StoreRests, AnswerRests DEF ExportsInv
<1> QED BY <1>1, <1>2, <1>3, <1>4, <1>5, <1>6, <1>7, <1>8, <1>9 DEF Next

(* The inductive invariant of the exports: at any moment of a stream, what  *)
(* was written and what is still to come are together the rows that the     *)
(* stores gave when the request came, whatever was stored, evicted or       *)
(* changed since.                                                           *)
THEOREM ExportsInvHolds == Spec => []ExportsInv
BY InitExportsInv, NextKeepsExportsInv, PTL DEF Spec

-----------------------------------------------------------------------------
(* The file that was written *)

(* W are the rows L with the columns of q. *)
IsWritten(W, L, q) ==
  /\ IsRows(L) /\ IsRows(W) /\ Len(W) = Len(L)
  /\ \A i \in 1..Len(L) : W[i] = FilterFields(L[i], Columns(q))

(* The chunks with a row are those after the opening one. *)
LEMMA ChunksWithRows ==
  ASSUME phase = "ended", Streams(request), NEW L, StreamInv(L),
         NEW K, K = {i \in DOMAIN body : "row" \in DOMAIN body[i]}
  PROVE  /\ Len(L) \in Nat /\ Opening(request) \in 0..1
         /\ K = (Opening(request) + 1)..(Opening(request) + Len(L))
         /\ \A i \in 1..Len(L) : body[Opening(request) + i] = Chunk(L, request, i)
<1>1. /\ IsRows(L) /\ Holds(body, L, request, Len(L))
      /\ IF request.format = "json"
         THEN Len(body) = Len(L) + 2 /\ body[Len(L) + 2] = [text |-> "]"]
         ELSE Len(body) = Len(L)
  BY DEF StreamInv
<1>2. PICK n \in Nat, o \in 0..1 : n = Len(L) /\ o = Opening(request)
  BY <1>1 DEF IsRows, Opening
<1>3. /\ DOMAIN body = 1..Len(body) /\ Len(body) \in Nat
      /\ request.format = "json" => body[1] = [text |-> "["]
      /\ \A i \in 1..n : body[o + i] = Chunk(L, request, i)
  BY <1>1, <1>2 DEF Holds, IsRows
<1>4. \A i \in 1..n : "row" \in DOMAIN Chunk(L, request, i)
  BY DEF Chunk
<1>7. Len(body) = n + 2 * o /\ (request.format = "json" <=> o = 1)
  BY <1>1, <1>2 DEF Opening
<1>5. ASSUME NEW i PROVE i \in K <=> i \in (o + 1)..(o + n)
  <2>1. CASE i \in (o + 1)..(o + n)
    <3>1. i - o \in 1..n /\ o + (i - o) = i /\ i \in 1..Len(body)
      BY <1>3, <1>7, <2>1
    <3>2. "row" \in DOMAIN body[i]
      BY <1>3, <1>4, <3>1
    <3> QED BY <1>3, <2>1, <3>1, <3>2
  <2>2. CASE i \in 1..Len(body) /\ i \notin (o + 1)..(o + n)
    <3>1. request.format = "json" /\ o = 1 /\ (i = 1 \/ i = n + 2)
      BY <1>3, <1>7, <2>2
    <3>2. body[i] = [text |-> "["] \/ body[i] = [text |-> "]"]
      BY <1>1, <1>2, <1>3, <3>1
    <3>3. "row" \notin DOMAIN body[i]
      BY <3>2
    <3> QED BY <2>2, <3>3
  <2> QED BY <1>3, <2>1, <2>2
<1>6. K = (o + 1)..(o + n)
  BY <1>5
<1> QED BY <1>2, <1>3, <1>6

(* A stream that has ended wrote each of its rows once. *)
LEMMA RowsAreWritten ==
  ASSUME phase = "ended", Streams(request), NEW L, StreamInv(L)
  PROVE  IsWritten(RowsWritten, L, request)
<1>1. PICK K : K = {i \in DOMAIN body : "row" \in DOMAIN body[i]}
  OBVIOUS
<1>2. PICK n \in Nat, o \in 0..1 : n = Len(L) /\ o = Opening(request)
  BY <1>1, ChunksWithRows
<1>3. K = (o + 1)..(o + n) /\ \A i \in 1..n : body[o + i] = Chunk(L, request, i)
  BY <1>1, <1>2, ChunksWithRows
<1>4. PICK before : before = [x \in K |-> {y \in K : y < x}]
  OBVIOUS
<1>5. Ordered(K, <) = Enumerated(K, before)
  BY <1>4, Zenon DEF Ordered
<1>6. PICK kept : kept = Enumerated(K, before)
  OBVIOUS
<1>7. kept = [i \in 1..n |-> i + o]
  <2>1. Lower(K, before)
    BY <1>4, OrdersOfUse, Zenon
  <2>2. o + 1 \in Int /\ o + n \in Int /\ o + 1 <= o + n + 1
    OBVIOUS
  <2>3. kept = [i \in 1..(o + n + 1 - (o + 1)) |-> i + (o + 1) - 1]
    BY <1>3, <1>6, <2>1, <2>2, EnumeratedInterval
  <2>4. o + n + 1 - (o + 1) = n /\ \A i \in 1..n : i + (o + 1) - 1 = i + o
    OBVIOUS
  <2> QED BY <2>3, <2>4
<1>8. PICK chunks : /\ chunks = [i \in DOMAIN kept |-> body[kept[i]]]
                    /\ RowsWritten = [i \in DOMAIN chunks |-> chunks[i].row]
  <2>1. Filtered(body, LAMBDA c : "row" \in DOMAIN c) = [i \in DOMAIN kept |-> body[kept[i]]]
    BY <1>1, <1>5, <1>6, Zenon DEF Filtered
  <2> QED BY <2>1, Zenon DEF RowsWritten
<1>9. PICK W : W = RowsWritten
  OBVIOUS
<1>10. \A i \in 1..n : kept[i] = o + i /\ DOMAIN kept = 1..n
  BY <1>7
<1>11. W = [i \in 1..n |-> body[o + i].row]
  BY <1>7, <1>8, <1>9, <1>10
<1>12. \A i \in 1..n : body[o + i].row = FilterFields(L[i], Columns(request))
  <2>1. \A i \in 1..n : Chunk(L, request, i).row = FilterFields(L[i], Columns(request))
    BY DEF Chunk
  <2> QED BY <1>3, <2>1
<1>13. /\ Len(W) = n /\ W = [i \in 1..n |-> W[i]]
       /\ \A i \in 1..n : W[i] = FilterFields(L[i], Columns(request))
  BY <1>11, <1>12
<1>14. IsRows(L)
  BY DEF StreamInv
<1> QED BY <1>2, <1>9, <1>13, <1>14 DEF IsWritten, IsRows

(* filterFields() keeps the fields that were asked for. *)
LEMMA FieldIsKept ==
  ASSUME NEW row, NEW columns, NEW f \in columns, f \in DOMAIN row
  PROVE  f \in DOMAIN FilterFields(row, columns) /\ FilterFields(row, columns)[f] = row[f]
BY DEF FilterFields

(* What was written is what was there when the request came. *)
LEMMA EndedFiles ==
  ASSUME ExportsInv, phase = "ended", Streams(request)
  PROVE  /\ Readable(asked.readings) /\ asked.devices \in Seq(Device)
         /\ IsWritten(RowsWritten, ExportRows(asked.readings, asked.devices, request), request)
<1>1. StreamInv(ExportRows(asked.readings, asked.devices, request))
      /\ Readable(asked.readings) /\ asked.devices \in Seq(Device)
  BY DEF ExportsInv, AnswerInv
<1> QED BY <1>1, RowsAreWritten

(* The readings of a file are those that matched, in the order of arrival. *)
LEMMA ReadingsFile ==
  ASSUME ExportsInv, Ended({"readings"}), "id" \in Columns(request)
  PROVE  /\ {RowsWritten[i].id : i \in DOMAIN RowsWritten}
              = {r.id : r \in Matching(asked.readings, request)}
         /\ \A i, j \in DOMAIN RowsWritten : i < j => RowsWritten[i].id < RowsWritten[j].id
<1>1. PICK L, W, R : /\ L = GetExportReadings(asked.readings, request)
                     /\ W = RowsWritten /\ R = Matching(asked.readings, request)
  OBVIOUS
<1>2. phase = "ended" /\ Streams(request) /\ request.kind = "readings"
  BY DEF Ended, Streams
<1>3. IsWritten(W, L, request) /\ Readable(asked.readings)
  <2>1. ExportRows(asked.readings, asked.devices, request) = L
    BY <1>1, <1>2 DEF ExportRows
  <2> QED BY <1>1, <1>2, <2>1, EndedFiles
<1>4. PICK rows : /\ Len(L) = Cardinality(R) /\ InOrderOfIds(rows, R)
                  /\ \A i \in 1..Len(L) : L[i] = ToExportReading(rows[i])
  BY <1>1, <1>3, ReadingsAreRows
<1>5. PICK n : n = Cardinality(R)
  OBVIOUS
<1>6. /\ n \in Nat /\ rows \in [1..n -> R] /\ \A x \in R : \E i \in 1..n : rows[i] = x
      /\ \A i, j \in 1..n : i < j => rows[i].id < rows[j].id
  BY <1>4, <1>5 DEF InOrderOfIds
<1>7. /\ DOMAIN W = 1..n
      /\ \A i \in 1..n : W[i] = FilterFields(L[i], Columns(request))
  BY <1>3, <1>4, <1>5 DEF IsWritten, IsRows
<1>8. ASSUME NEW i \in 1..n PROVE W[i].id = rows[i].id
  <2>1. L[i] = ToExportReading(rows[i])
    BY <1>4, <1>5
  <2>2. "id" \in DOMAIN L[i] /\ L[i].id = rows[i].id
    BY <2>1 DEF ToExportReading
  <2>3. FilterFields(L[i], Columns(request)).id = L[i].id
    BY <2>2, FieldIsKept
  <2> QED BY <1>7, <2>2, <2>3
<1>9. {W[i].id : i \in DOMAIN W} = {r.id : r \in R}
  <2>1. {W[i].id : i \in DOMAIN W} = {rows[i].id : i \in 1..n}
    BY <1>7, <1>8
  <2>2. {rows[i].id : i \in 1..n} = {r.id : r \in R}
    BY <1>6
  <2> QED BY <2>1, <2>2
<1>10. \A i, j \in DOMAIN W : i < j => W[i].id < W[j].id
  BY <1>6, <1>7, <1>8
<1> QED BY <1>1, <1>9, <1>10

(* The meters of a file are the devices of its location. *)
LEMMA MetersFile ==
  ASSUME ExportsInv, Ended({"meters"})
  PROVE  LET there == Filtered(asked.devices, LAMBDA d : request.location \in {Null, d.location})
         IN  RowsWritten = [i \in DOMAIN there |-> FilterFields(there[i], Columns(request))]
<1>1. PICK L, W : L = GetExportMeters(asked.devices, request.location) /\ W = RowsWritten
  OBVIOUS
<1>2. phase = "ended" /\ Streams(request) /\ request.kind = "meters"
  BY DEF Ended, Streams
<1>3. IsWritten(W, L, request)
  <2>1. ExportRows(asked.readings, asked.devices, request) = L
    BY <1>1, <1>2 DEF ExportRows
  <2> QED BY <1>1, <1>2, <2>1, EndedFiles
<1>4. PICK K : K = {i \in DOMAIN asked.devices :
                      request.location \in {Null, asked.devices[i].location}}
  OBVIOUS
<1>5. K = {i \in DOMAIN asked.devices :
             request.location # Null => asked.devices[i].location = request.location}
  BY <1>4
<1>6. Filtered(asked.devices, LAMBDA d : request.location \in {Null, d.location}) = L
  <2>1. Filtered(asked.devices, LAMBDA d : request.location \in {Null, d.location})
          = [n \in DOMAIN Ordered(K, <) |-> asked.devices[Ordered(K, <)[n]]]
    BY <1>4, Zenon DEF Filtered
  <2>2. L = [n \in DOMAIN Ordered(K, <) |-> asked.devices[Ordered(K, <)[n]]]
    BY <1>1, <1>5, Zenon DEF GetExportMeters, Filtered
  <2> QED BY <2>1, <2>2, Zenon
<1>7. W = [i \in DOMAIN L |-> FilterFields(L[i], Columns(request))]
  BY <1>3 DEF IsWritten, IsRows
<1> QED BY <1>1, <1>6, <1>7, Zenon

(* The summary of a report counts the rows written with it. *)
LEMMA ReportFile ==
  ASSUME ExportsInv, Ended({"report"}), Streams(request), IsWholeReport(request)
  PROVE  \A i \in DOMAIN RowsWritten : RowsWritten[i]._section = "summary" =>
           LET tagged(s) == {j \in DOMAIN RowsWritten : RowsWritten[j]._section = s}
           IN  /\ RowsWritten[i].totalReadings = Cardinality(tagged("readings"))
               /\ RowsWritten[i].totalMeters = Cardinality(tagged("meters"))
<1>1. PICK L, W, m, n :
        /\ L = Flattened(BuildSystemReport(asked.readings, asked.devices, request.sections))
        /\ W = RowsWritten /\ m = Len(asked.devices) /\ n = Cardinality(asked.readings)
  OBVIOUS
<1>2. phase = "ended" /\ request.kind = "report"
  BY DEF Ended
<1>3. IsWritten(W, L, request) /\ Readable(asked.readings) /\ asked.devices \in Seq(Device)
  <2>1. ExportRows(asked.readings, asked.devices, request) = L
    BY <1>1, <1>2 DEF ExportRows
  <2> QED BY <1>1, <1>2, <2>1, EndedFiles
<1>4. IsReport(L, m, n)
  BY <1>1, <1>3, ReportRows DEF IsWholeReport
<1>5. /\ m \in Nat /\ n \in Nat /\ Len(L) = m + n + 1
      /\ \A i \in 1..(m + n + 1) :
           /\ "_section" \in DOMAIN L[i]
           /\ L[i]._section = IF i <= m THEN "meters"
                              ELSE IF i <= m + n THEN "readings" ELSE "summary"
      /\ "totalMeters" \in DOMAIN L[m + n + 1] /\ "totalReadings" \in DOMAIN L[m + n + 1]
      /\ L[m + n + 1].totalMeters = m /\ L[m + n + 1].totalReadings = n
  BY <1>4 DEF IsReport
<1>6. /\ DOMAIN W = 1..(m + n + 1)
      /\ \A i \in 1..(m + n + 1) : W[i] = FilterFields(L[i], Columns(request))
  BY <1>3, <1>5 DEF IsWritten, IsRows
<1>7. {"_section", "totalReadings", "totalMeters"} \subseteq Columns(request)
  BY DEF IsWholeReport
<1>8. ASSUME NEW i \in 1..(m + n + 1)
      PROVE  W[i]._section = IF i <= m THEN "meters"
                             ELSE IF i <= m + n THEN "readings" ELSE "summary"
  <2>1. FilterFields(L[i], Columns(request))._section = L[i]._section
    BY <1>5, <1>7, FieldIsKept
  <2> QED BY <1>5, <1>6, <2>1
<1>9. W[m + n + 1].totalReadings = n /\ W[m + n + 1].totalMeters = m
  <2>1. m + n + 1 \in 1..(m + n + 1)
    BY <1>5
  <2>2. /\ FilterFields(L[m + n + 1], Columns(request)).totalReadings = L[m + n + 1].totalReadings
        /\ FilterFields(L[m + n + 1], Columns(request)).totalMeters = L[m + n + 1].totalMeters
    BY <1>5, <1>7, FieldIsKept
  <2> QED BY <1>5, <1>6, <2>1, <2>2
<1>10. Cardinality({j \in DOMAIN W : W[j]._section = "meters"}) = m
  <2>1. {j \in DOMAIN W : W[j]._section = "meters"} = 1..m
    <3>1. ASSUME NEW j PROVE (j \in DOMAIN W /\ W[j]._section = "meters") <=> j \in 1..m
      BY <1>5, <1>6, <1>8
    <3> QED BY <3>1
  <2>2. Cardinality(1..m) = m
    <3>1. 1 \in Int /\ m \in Int /\ (1 > m => m = 0) /\ m - 1 + 1 = m
      BY <1>5
    <3>2. Cardinality(1..m) = IF 1 > m THEN 0 ELSE m - 1 + 1
      BY <3>1, FS_Interval
    <3> QED BY <3>1, <3>2
  <2> QED BY <2>1, <2>2
<1>11. Cardinality({j \in DOMAIN W : W[j]._section = "readings"}) = n
  <2>1. {j \in DOMAIN W : W[j]._section = "readings"} = (m + 1)..(m + n)
    <3>1. ASSUME NEW j
          PROVE  (j \in DOMAIN W /\ W[j]._section = "readings") <=> j \in (m + 1)..(m + n)
      BY <1>5, <1>6, <1>8
    <3> QED BY <3>1
  <2>2. Cardinality((m + 1)..(m + n)) = n
    BY <1>5, FS_Interval
  <2> QED BY <2>1, <2>2
<1>12. ASSUME NEW i \in DOMAIN W, W[i]._section = "summary" PROVE i = m + n + 1
  BY <1>5, <1>6, <1>8, <1>12
<1> QED BY <1>1, <1>9, <1>10, <1>11, <1>12

(* A JSON export is an array with its brackets and its commas. *)
LEMMA JsonFile ==
  ASSUME ExportsInv, Ended(Kinds), Streams(request), request.format = "json"
  PROVE  \A i \in DOMAIN body :
           CASE i = 1 -> body[i] = [text |-> "["]
             [] i = Len(body) -> body[i] = [text |-> "]"]
             [] OTHER -> body[i].comma = (i > 2)
<1>1. PICK L : L = ExportRows(asked.readings, asked.devices, request)
  OBVIOUS
<1>2. phase = "ended" /\ StreamInv(L)
  BY <1>1 DEF Ended, ExportsInv, AnswerInv
<1>3. PICK n \in Nat : n = Len(L)
  BY <1>2 DEF StreamInv, IsRows
<1>4. /\ Len(body) = n + 2 /\ body[n + 2] = [text |-> "]"] /\ DOMAIN body = 1..(n + 2)
      /\ body[1] = [text |-> "["]
      /\ \A i \in 1..n : body[1 + i] = Chunk(L, request, i)
  BY <1>2, <1>3 DEF StreamInv, Holds, IsRows, Opening
<1>5. \A i \in 1..n : Chunk(L, request, i).comma = (i > 1)
  BY DEF Chunk
<1>6. ASSUME NEW i \in 2..(n + 1) PROVE body[i].comma = (i > 2)
  <2>1. i - 1 \in 1..n /\ 1 + (i - 1) = i /\ (i - 1 > 1) = (i > 2)
    OBVIOUS
  <2>2. Chunk(L, request, i - 1).comma = (i - 1 > 1) /\ body[1 + (i - 1)] = Chunk(L, request, i - 1)
    BY <1>4, <1>5, <2>1
  <2> QED BY <2>1, <2>2
<1>7. ASSUME NEW i \in 1..(n + 2) PROVE i = 1 \/ i = n + 2 \/ i \in 2..(n + 1)
  OBVIOUS
<1> QED BY <1>4, <1>6, <1>7

(* FilesAreSnapshots for every store, registry, request and interleaving:   *)
(* a file that ended has the rows of the moment it was asked for, each      *)
(* once and in order, its summary agrees with it, and its JSON is an        *)
(* array.                                                                   *)
THEOREM ExportsAreSnapshots == Spec => []FilesAreSnapshots
<1>1. ExportsInv => FilesAreSnapshots
  <2> SUFFICES ASSUME ExportsInv PROVE FilesAreSnapshots
    OBVIOUS
  <2> QED BY ReadingsFile, MetersFile, ReportFile, JsonFile, Zenon DEF FilesAreSnapshots
<1> QED BY <1>1, ExportsInvHolds, PTL

-----------------------------------------------------------------------------
(* Slots *)

(* The instants that generateBucketKeys() visits in steps of one length. *)
StepOf(g) == IF g = "hour" THEN 1 ELSE IF g = "day" THEN HoursInDay ELSE 7 * HoursInDay

(* Hours, days and weeks are visited in steps of one length. *)
LEMMA VisitedBySteps ==
  ASSUME NEW from, NEW to, NEW g \in {"hour", "day", "week"}
  PROVE  Visited(from, to, g) = {t \in from..EndOfDay(to) : (t - from) % StepOf(g) = 0}
<1>1. /\ 1 # Null /\ HoursInDay # Null /\ 7 * HoursInDay # Null
  <2>1. Null \notin Int
    BY CalendarAssumption DEF CalendarAssumption
  <2> QED BY <2>1, HoursArePositive
<1>2. CASE g = "hour"
  BY <1>1, <1>2 DEF Visited, StepOf
<1>3. CASE g = "day"
  BY <1>1, <1>3 DEF Visited, StepOf
<1>4. CASE g = "week"
  BY <1>1, <1>4 DEF Visited, StepOf
<1> QED BY <1>2, <1>3, <1>4

(* f steps from one month to the next, up to step n. *)
MonthSteps(f, n, from, to) ==
  f = [i \in 0..n |->
         IF i = 0 THEN from
         ELSE IF f[i - 1] > EndOfDay(to) THEN f[i - 1] ELSE AddMonths(f[i - 1], 1)]

(* Months are stepped from one to the next, at most as many times as there  *)
(* are months.                                                              *)
LEMMA MonthStepsExist ==
  ASSUME NEW from, NEW to, NEW n \in Nat
  PROVE  \E f : MonthSteps(f, n, from, to)
<1> DEFINE P == {k \in 0..n : \E f : MonthSteps(f, k, from, to)}
<1>1. 0 \in P
  <2>1. PICK f : f = [i \in 0..0 |-> from]
    OBVIOUS
  <2>2. MonthSteps(f, 0, from, to)
    <3>1. 0..0 = {0}
      OBVIOUS
    <3>2. f = [i \in 0..0 |-> f[i]] /\ \A i \in 0..0 : i = 0 /\ f[i] = from
      BY <2>1, <3>1
    <3> QED BY <3>2 DEF MonthSteps
  <2> QED BY <2>2
<1>2. ASSUME NEW k \in 0..(n - 1), k \in P PROVE k + 1 \in P
  <2>1. PICK f : MonthSteps(f, k, from, to)
    BY <1>2
  <2>2. PICK e : e = IF f[k] > EndOfDay(to) THEN f[k] ELSE AddMonths(f[k], 1)
    OBVIOUS
  <2>3. PICK g : g = [i \in 0..(k + 1) |-> IF i = k + 1 THEN e ELSE f[i]]
    OBVIOUS
  <2>4. g[k + 1] = e /\ \A i \in 0..k : g[i] = f[i]
    BY <2>3
  <2>5. \A i \in 0..k : f[i] = IF i = 0 THEN from
                               ELSE IF f[i - 1] > EndOfDay(to) THEN f[i - 1]
                                    ELSE AddMonths(f[i - 1], 1)
    BY <2>1 DEF MonthSteps
  <2>6. ASSUME NEW i \in 0..(k + 1)
        PROVE  g[i] = IF i = 0 THEN from
                      ELSE IF g[i - 1] > EndOfDay(to) THEN g[i - 1]
                           ELSE AddMonths(g[i - 1], 1)
    <3>1. CASE i = k + 1
      <4>1. i # 0 /\ i - 1 = k /\ g[k] = f[k]
        BY <2>4, <3>1
      <4> QED BY <2>2, <2>4, <3>1, <4>1
    <3>2. CASE i \in 0..k
      <4>1. i = 0 \/ i - 1 \in 0..k
        BY <3>2
      <4> QED BY <2>4, <2>5, <3>2, <4>1
    <3> QED BY <3>1, <3>2
  <2>7. g = [i \in 0..(k + 1) |-> g[i]]
    BY <2>3
  <2>8. MonthSteps(g, k + 1, from, to)
    BY <2>6, <2>7 DEF MonthSteps
  <2> QED BY <2>8
<1> HIDE DEF P
<1>3. \A k \in 0..n : k \in P
  BY <1>1, <1>2, IntervalInduction
<1> QED BY <1>3 DEF P

(* The months visited are the steps within the range. *)
LEMMA VisitedByMonths ==
  ASSUME NEW from, NEW to
  PROVE  \E f : /\ MonthSteps(f, Months, from, to)
                /\ Visited(from, to, "month") = {f[n] : n \in 0..Months} \cap from..EndOfDay(to)
<1>1. \E f : MonthSteps(f, Months, from, to)
  BY MonthStepsExist, MonthsHaveLengths
<1>2. PICK f : /\ f = CHOOSE h : h = [n \in 0..Len(MonthLengths) |->
                        IF n = 0 THEN from
                        ELSE LET last == h[n - 1]
                             IN  IF last > EndOfDay(to) THEN last ELSE AddMonths(last, 1)]
  OBVIOUS
<1>3. MonthSteps(f, Months, from, to)
  BY <1>1, <1>2 DEF MonthSteps, Months
<1>4. Visited(from, to, "month") = {f[n] : n \in 0..Months} \cap from..EndOfDay(to)
  BY <1>2, Zenon DEF Visited, Months
<1> QED BY <1>3, <1>4

(* A visited instant that shares the bucket of a time makes the key of it.  *)
LEMMA SlotOf ==
  ASSUME NEW from, NEW to, NEW g, NEW time, NEW t \in Visited(from, to, g),
         BucketKey(t, g) = BucketKey(time, g)
  PROVE  BucketKey(time, g) \in GenerateBucketKeys(from, to, g)
BY DEF GenerateBucketKeys

(* Each hour of the range is visited. *)
LEMMA HourSlots ==
  ASSUME NEW from \in Int, NEW to \in Int, NEW time \in from..EndOfDay(to)
  PROVE  BucketKey(time, "hour") \in GenerateBucketKeys(from, to, "hour")
<1>1. EndOfDay(to) \in Int
  BY EndOfDayOfTime
<1>2. (time - from) % 1 = 0
  BY <1>1
<1>3. time \in Visited(from, to, "hour")
  BY <1>2, VisitedBySteps DEF StepOf
<1> QED BY <1>3, SlotOf

(* A whole number of steps leaves no remainder. *)
LEMMA Multiples ==
  ASSUME NEW h \in Nat, h > 0, NEW k \in Nat
  PROVE  k * h \in Nat /\ (k * h) % h = 0
OBVIOUS

(* Each day of the range is visited, at the hour it starts with. *)
LEMMA DaySlots ==
  ASSUME NEW from \in Int, NEW to \in Int, NEW time \in from..EndOfDay(to)
  PROVE  BucketKey(time, "day") \in GenerateBucketKeys(from, to, "day")
<1>1. EndOfDay(to) \in Int /\ time \in Int /\ DayOf(time) \in Int /\ DayOf(from) \in Int
  BY EndOfDayOfTime, DayOfTime
<1>2. DayOf(from) <= DayOf(time) /\ DayOf(time) <= DayOf(to)
  BY <1>1, DaysGrow, EndOfDayOfTime
<1>3. PICK k \in Nat : k = DayOf(time) - DayOf(from)
  BY <1>1, <1>2
<1>4. StartOfDay(k) \in Nat /\ StartOfDay(k) % HoursInDay = 0
  BY Multiples, HoursArePositive DEF StartOfDay
<1>5. PICK t \in Int : t = from + StartOfDay(k)
  BY <1>4
<1>6. DayOf(t) = DayOf(time)
  BY <1>1, <1>3, <1>5, DayLater
<1>7. t \in from..EndOfDay(to) /\ t - from = StartOfDay(k)
  <2>1. t <= EndOfDay(to)
    BY <1>2, <1>6, EndOfDayOfTime
  <2> QED BY <1>1, <1>4, <1>5, <2>1
<1>8. t \in Visited(from, to, "day")
  BY <1>4, <1>7, VisitedBySteps DEF StepOf
<1> QED BY <1>6, <1>8, SlotOf, BucketKeyDay

(* Mondays *)
LEMMA WeeksApart ==
  ASSUME NEW d \in Int, NEW e \in Int, d <= e
  PROVE  \E k \in Nat : e - InWeek(e) = d - InWeek(d) + 7 * k
<1>1. InWeek(d) \in 0..6 /\ InWeek(e) \in 0..6
  BY WeekdaysAreSeven
<1>2. PICK m \in Int, n \in Int : m = d - InWeek(d) /\ n = e - InWeek(e)
  BY <1>1
<1>3. InWeek(m) = 0 /\ InWeek(n) = 0
  BY <1>2, WeekdaysAreSeven
<1>4. PICK f \in Int : f = FirstWeekday
  BY CalendarAssumption DEF CalendarAssumption
<1>5. InWeek(m) = (f + m + 6) % 7 /\ InWeek(n) = (f + n + 6) % 7
  BY <1>4 DEF InWeek, Weekday
<1>6. \E k \in Int : n = m + 7 * k
  <2>1. PICK a \in Int, b \in Int : a = f + m + 6 /\ b = f + n + 6
    OBVIOUS
  <2>2. a % 7 = 0 /\ b % 7 = 0
    BY <1>3, <1>5, <2>1
  <2>3. a = 7 * (a \div 7) /\ b = 7 * (b \div 7) /\ a \div 7 \in Int /\ b \div 7 \in Int
    BY <2>2
  <2>4. n = m + 7 * (b \div 7 - a \div 7)
    BY <2>1, <2>3
  <2> QED BY <2>3, <2>4
<1>7. PICK k \in Int : n = m + 7 * k
  BY <1>6
<1>8. k >= 0
  BY <1>1, <1>2, <1>7
<1> QED BY <1>2, <1>7, <1>8

(* Each week is, when the range ends no earlier in its week than it         *)
(* starts.                                                                  *)
LEMMA WeekSlots ==
  ASSUME NEW from \in Int, NEW to \in Int, NEW time \in from..EndOfDay(to),
         InWeek(DayOf(from)) <= InWeek(DayOf(to))
  PROVE  BucketKey(time, "week") \in GenerateBucketKeys(from, to, "week")
<1>1. /\ EndOfDay(to) \in Int /\ time \in Int
      /\ DayOf(time) \in Int /\ DayOf(from) \in Int /\ DayOf(to) \in Int
  BY EndOfDayOfTime, DayOfTime
<1>2. DayOf(from) <= DayOf(time) /\ DayOf(time) <= DayOf(to)
  BY <1>1, DaysGrow, EndOfDayOfTime
<1>3. PICK d \in Int, e \in Int, f \in Int : d = DayOf(from) /\ e = DayOf(time) /\ f = DayOf(to)
  BY <1>1
<1>4. InWeek(d) \in 0..6 /\ InWeek(e) \in 0..6 /\ InWeek(f) \in 0..6 /\ InWeek(d) <= InWeek(f)
  BY <1>3, WeekdaysAreSeven
<1>5. PICK k \in Nat : e - InWeek(e) = d - InWeek(d) + 7 * k
  BY <1>2, <1>3, WeeksApart
<1>6. PICK l \in Nat : f - InWeek(f) = e - InWeek(e) + 7 * l
  BY <1>2, <1>3, WeeksApart
<1>7. PICK t \in Int : t = from + StartOfDay(7 * k)
  <2>1. 7 * k \in Int
    OBVIOUS
  <2>2. StartOfDay(7 * k) \in Int
    BY <2>1, DaysAdd
  <2> QED BY <2>2
<1>8. DayOf(t) = d + 7 * k
  BY <1>3, <1>7, DayLater
<1>9. DayOf(t) <= f
  BY <1>4, <1>5, <1>6, <1>8
<1>10. /\ StartOfDay(7 * k) = k * (7 * HoursInDay)
       /\ k * (7 * HoursInDay) \in Nat /\ (k * (7 * HoursInDay)) % (7 * HoursInDay) = 0
  <2>1. 7 * HoursInDay \in Nat /\ 7 * HoursInDay > 0
    BY HoursArePositive
  <2>2. (7 * k) * HoursInDay = k * (7 * HoursInDay)
    BY HoursArePositive
  <2> QED BY <2>1, <2>2, Multiples DEF StartOfDay
<1>11. t \in from..EndOfDay(to) /\ t - from = k * (7 * HoursInDay)
  <2>1. t <= EndOfDay(to)
    BY <1>3, <1>9, EndOfDayOfTime
  <2>2. t = from + k * (7 * HoursInDay)
    BY <1>7, <1>10
  <2> QED BY <1>1, <1>10, <2>1, <2>2
<1>12. t \in Visited(from, to, "week")
  BY <1>10, <1>11, VisitedBySteps DEF StepOf
<1>13. BucketKey(t, "week") = BucketKey(time, "week")
  <2>1. InWeek(d + 7 * k) = InWeek(d)
    <3>1. \A j \in Int : InWeek(d + 7 * j) = InWeek(d)
      BY WeekdaysAreSeven
    <3> QED BY <3>1
  <2>2. d + 7 * k - InWeek(d) = e - InWeek(e)
    BY <1>4, <1>5
  <2>3. BucketKey(t, "week") = StartOfDay(DayOf(t) - InWeek(DayOf(t)))
    BY BucketKeyWeek
  <2>4. BucketKey(time, "week") = StartOfDay(e - InWeek(e))
    BY <1>3, BucketKeyWeek
  <2>5. DayOf(t) - InWeek(DayOf(t)) = e - InWeek(e)
    <3>1. InWeek(DayOf(t)) = InWeek(d)
      BY <1>8, <2>1, Zenon
    <3>2. PICK w \in 0..6, x \in 0..6 : w = InWeek(d) /\ x = InWeek(e)
      BY <1>4
    <3>3. d + 7 * k - w = e - x
      BY <2>2, <3>2
    <3> QED BY <1>8, <3>1, <3>2, <3>3
  <2> QED BY <2>3, <2>4, <2>5
<1> QED BY <1>12, <1>13, SlotOf

InMonth(day) == day - MonthStart[MonthOf(day)]

(* Each month is, when every month has the day of the start and the last    *)
(* reaches it.                                                              *)
LEMMA MonthSlots ==
  ASSUME NEW from \in Instants, NEW to \in Instants, NEW time \in from..EndOfDay(to),
         InMonth(DayOf(from)) <= InMonth(DayOf(to)),
         \A m \in MonthOf(DayOf(from))..MonthOf(DayOf(to)) : InMonth(DayOf(from)) < MonthLengths[m]
  PROVE  BucketKey(time, "month") \in GenerateBucketKeys(from, to, "month")
<1>1. /\ from \in Int /\ to \in Int /\ EndOfDay(to) \in Int /\ time \in Int
      /\ DayOf(from) \in CalendarDays /\ DayOf(to) \in CalendarDays
      /\ DayOf(from) \in Int /\ DayOf(to) \in Int /\ DayOf(time) \in Int
  BY InstantsHaveDays, EndOfDayOfTime, DayOfTime
<1>2. DayOf(from) <= DayOf(time) /\ DayOf(time) <= DayOf(to)
  BY <1>1, DaysGrow, EndOfDayOfTime
<1>3. DayOf(time) \in CalendarDays /\ Months \in Nat
  BY <1>1, <1>2, MonthsHaveLengths, MonthsGrow DEF CalendarDays
<1>4. PICK a \in 1..Months, b \in 1..Months, c \in 1..Months :
        a = MonthOf(DayOf(from)) /\ b = MonthOf(DayOf(time)) /\ c = MonthOf(DayOf(to))
  BY <1>1, <1>3, MonthOfDay
<1>5. /\ MonthStart[a] <= DayOf(from) /\ DayOf(from) < MonthStart[a + 1]
      /\ MonthStart[b] <= DayOf(time) /\ DayOf(time) < MonthStart[b + 1]
      /\ MonthStart[c] <= DayOf(to) /\ DayOf(to) < MonthStart[c + 1]
  BY <1>1, <1>3, <1>4, MonthOfDay
<1>6. \A m \in 1..(Months + 1) : MonthStart[m] \in Nat
  BY MonthsGrow
<1>7. a <= b /\ b <= c
  <2>1. ASSUME NEW m \in 1..Months, NEW n \in 1..Months, NEW d \in Int, NEW e \in Int,
               d <= e, MonthStart[m] <= d, e < MonthStart[n + 1]
        PROVE  m <= n
    <3>1. m \in 1..(Months + 1) /\ n + 1 \in 1..(Months + 1)
      BY <1>3
    <3>2. n + 1 <= m => MonthStart[n + 1] <= MonthStart[m]
      BY <3>1, MonthsInOrder
    <3>3. MonthStart[m] \in Int /\ MonthStart[n + 1] \in Int
      BY <1>6, <3>1
    <3> QED BY <2>1, <3>2, <3>3
  <2>2. a <= b
    BY <1>1, <1>2, <1>4, <1>5, <2>1
  <2>3. b <= c
    BY <1>1, <1>2, <1>4, <1>5, <2>1
  <2> QED BY <2>2, <2>3
<1>8. PICK r \in Nat : r = DayOf(from) - MonthStart[a]
  <2>1. MonthStart[a] \in Nat
    BY <1>3, <1>4, <1>6
  <2> QED BY <1>1, <1>5, <2>1
<1>9. r <= DayOf(to) - MonthStart[c] /\ \A m \in a..c : r < MonthLengths[m]
  BY <1>4, <1>8 DEF InMonth
(* The instant visited in month m. *)
<1>10. PICK v : v = [m \in a..c |-> from + StartOfDay(MonthStart[m] - MonthStart[a])]
  OBVIOUS
<1>11. ASSUME NEW m \in a..c
       PROVE  /\ v[m] \in Int /\ DayOf(v[m]) = MonthStart[m] + r /\ MonthOf(DayOf(v[m])) = m
              /\ v[m] \in from..EndOfDay(to)
  <2>1. m \in 1..Months /\ m \in 1..(Months + 1) /\ m + 1 \in 1..(Months + 1)
        /\ a \in 1..(Months + 1) /\ c \in 1..(Months + 1) /\ a <= m /\ m <= c
    BY <1>3, <1>4, <1>7
  <2>2. PICK s \in Nat, s0 \in Nat, s1 \in Nat, sc \in Nat :
          s = MonthStart[m] /\ s0 = MonthStart[a] /\ s1 = MonthStart[m + 1] /\ sc = MonthStart[c]
    BY <1>6, <2>1
  <2>3. s0 <= s /\ s <= sc
    BY <2>1, <2>2, MonthsInOrder
  <2>4. s1 = s + MonthLengths[m] /\ MonthLengths[m] \in Nat
    BY <2>1, <2>2, MonthStarts, MonthsHaveLengths
  <2>5. PICK t \in Int, k \in Nat : t = v[m] /\ k = s - s0 /\ t = from + StartOfDay(k)
    <3>1. StartOfDay(s - s0) \in Int
      <4>1. s - s0 \in Int
        OBVIOUS
      <4> QED BY <4>1, DaysAdd
    <3> QED BY <1>1, <1>10, <2>2, <2>3, <3>1
  <2>6. DayOf(t) = DayOf(from) + k
    BY <1>1, <2>5, DayLater
  <2>7. DayOf(t) = s + r
    BY <1>1, <1>8, <2>2, <2>5, <2>6
  <2>8. r < MonthLengths[m]
    BY <1>9
  <2>9. s <= DayOf(t) /\ DayOf(t) < s1
    BY <2>4, <2>7, <2>8
  <2>10. DayOf(t) <= DayOf(to)
    BY <1>1, <1>9, <2>2, <2>3, <2>7
  <2>11. DayOf(t) \in CalendarDays
    <3>1. MonthStart[Months + 1] \in Nat
      BY <1>3, <1>6
    <3> QED BY <1>1, <2>7, <2>10, <3>1 DEF CalendarDays
  <2>12. MonthOf(DayOf(t)) = m
    BY <2>1, <2>2, <2>9, <2>11, MonthIsUnique
  <2>13. t <= EndOfDay(to)
    BY <1>1, <2>10, EndOfDayOfTime
  <2>14. from <= t
    <3>1. StartOfDay(k) \in Nat
      BY Multiples, HoursArePositive DEF StartOfDay
    <3> QED BY <1>1, <2>5, <3>1
  <2> QED BY <1>1, <2>2, <2>5, <2>7, <2>12, <2>13, <2>14
<1>12. PICK f : /\ MonthSteps(f, Months, from, to)
                /\ Visited(from, to, "month") = {f[n] : n \in 0..Months} \cap from..EndOfDay(to)
  BY VisitedByMonths
<1>13. PICK P : P = {n \in 0..(c - a) : f[n] = v[a + n]}
  OBVIOUS
<1>14. c - a \in Nat /\ c - a <= Months
  BY <1>3, <1>4, <1>7
<1>15. \A i \in 0..Months :
         f[i] = IF i = 0 THEN from
                ELSE IF f[i - 1] > EndOfDay(to) THEN f[i - 1] ELSE AddMonths(f[i - 1], 1)
  BY <1>12 DEF MonthSteps
<1>16. 0 \in P
  <2>1. f[0] = from /\ a \in a..c /\ a + 0 = a
    BY <1>3, <1>4, <1>7, <1>15
  <2>2. v[a] = from + StartOfDay(0)
    <3>1. MonthStart[a] - MonthStart[a] = 0
      BY <1>3, <1>4, <1>6
    <3> QED BY <1>10, <2>1, <3>1
  <2>3. StartOfDay(0) = 0
    BY HoursArePositive DEF StartOfDay
  <2> QED BY <1>1, <1>13, <1>14, <2>1, <2>2, <2>3
<1>17. ASSUME NEW n \in 0..(c - a - 1), n \in P PROVE n + 1 \in P
  <2>1. PICK m \in a..c : m = a + n /\ m + 1 \in a..c /\ a + (n + 1) = m + 1
    BY <1>3, <1>4, <1>14
  <2>2. f[n] = v[m] /\ n + 1 \in 0..Months /\ n + 1 # 0 /\ n + 1 - 1 = n
    <3>1. f[n] = v[a + n]
      BY <1>13, <1>17
    <3>2. n + 1 \in 0..Months /\ n + 1 # 0 /\ n + 1 - 1 = n
      BY <1>3, <1>14
    <3> QED BY <2>1, <3>1, <3>2
  <2>3. v[m] \in Int /\ MonthOf(DayOf(v[m])) = m /\ ~ (v[m] > EndOfDay(to))
    BY <1>1, <1>11
  <2>4. f[n + 1] = AddMonths(v[m], 1)
    BY <1>15, <2>2, <2>3
  <2>5. AddMonths(v[m], 1) = v[m] + StartOfDay(MonthStart[m + 1] - MonthStart[m])
    BY <2>3 DEF AddMonths
  <2>6. v[m] = from + StartOfDay(MonthStart[m] - MonthStart[a])
        /\ v[m + 1] = from + StartOfDay(MonthStart[m + 1] - MonthStart[a])
    BY <1>10, <2>1
  <2>7. PICK s \in Int, s0 \in Int, s1 \in Int :
          s = MonthStart[m] /\ s0 = MonthStart[a] /\ s1 = MonthStart[m + 1]
    <3>1. m \in 1..(Months + 1) /\ a \in 1..(Months + 1) /\ m + 1 \in 1..(Months + 1)
      BY <1>3, <1>4, <2>1
    <3> QED BY <1>6, <3>1
  <2>8. StartOfDay((s - s0) + (s1 - s)) = StartOfDay(s - s0) + StartOfDay(s1 - s)
        /\ StartOfDay(s - s0) \in Int /\ StartOfDay(s1 - s) \in Int
    <3>1. s - s0 \in Int /\ s1 - s \in Int
      OBVIOUS
    <3> QED BY <3>1, DaysAdd
  <2>9. (s - s0) + (s1 - s) = s1 - s0
    OBVIOUS
  <2>10. f[n + 1] = v[m + 1]
    BY <1>1, <2>4, <2>5, <2>6, <2>7, <2>8, <2>9
  <2> QED BY <1>13, <1>14, <2>1, <2>10
<1>18. \A n \in 0..(c - a) : n \in P
  BY <1>14, <1>16, <1>17, IntervalInduction
<1>19. b \in a..c /\ b - a \in 0..(c - a) /\ b - a \in 0..Months /\ a + (b - a) = b
  BY <1>3, <1>4, <1>7, <1>14
<1>20. f[b - a] = v[b]
  BY <1>13, <1>18, <1>19
<1>21. v[b] \in Visited(from, to, "month")
  BY <1>11, <1>12, <1>19, <1>20
<1>22. BucketKey(v[b], "month") = BucketKey(time, "month")
  BY <1>4, <1>11, <1>19, BucketKeyMonth
<1> QED BY <1>21, <1>22, SlotOf

(* The answer to a request for buckets. *)
LEMMA BucketsAnswer ==
  ASSUME ExportsInv, Ended({"buckets"})
  PROVE  /\ request \in Requests /\ request.kind = "buckets" /\ Readable(asked.readings)
         /\ body[1] = AggregatedResponse(asked.readings, request)
<1>1. phase = "ended" /\ request.kind = "buckets" /\ ~ Streams(request)
  BY DEF Ended, Streams
<1>2. /\ request \in Requests /\ Readable(asked.readings)
      /\ body = <<Answer(asked.readings, asked.devices, request)>>
  BY <1>1 DEF ExportsInv, AnswerInv
<1>3. Answer(asked.readings, asked.devices, request) = AggregatedResponse(asked.readings, request)
  BY <1>1 DEF Answer
<1> QED BY <1>1, <1>2, <1>3

(* The buckets and the count of an answer. *)
LEMMA DataOfAnswer ==
  ASSUME NEW R, NEW q
  PROVE  /\ AggregatedResponse(R, q).data
              = AggregateReadings(R, q, q.granularity, q.aggregationType)
         /\ AggregatedResponse(R, q).totalReadings = Cardinality(Matching(R, q))
BY DEF AggregatedResponse

(* The keys of an answer are those of readings and the generated ones. *)
LEMMA SlotsOfData ==
  ASSUME NEW R, NEW q, NEW g, NEW type
  PROVE  DOMAIN AggregateReadings(R, q, g, type)
           = KeysOf(Matching(R, q), g) \cup GenerateBucketKeys(q.startDate, q.endDate, g)
BY DEF AggregateReadings, KeysOf

(* NoSlotIsMissing for every calendar and range: every slot that the range  *)
(* touches has a bucket, with the guards the property states.               *)
THEOREM SlotsAreComplete == Spec => []NoSlotIsMissing
<1>1. ExportsInv => NoSlotIsMissing
  <2> SUFFICES ASSUME ExportsInv, Ended({"buckets"}) PROVE NoSlotIsMissing
    BY DEF NoSlotIsMissing
  <2>1. PICK from, to, g :
          from = request.startDate /\ to = request.endDate /\ g = request.granularity
    OBVIOUS
  <2>2. from \in Instants /\ to \in Instants /\ g \in Granularities
    BY <2>1, BucketsAnswer, RequestAssumption DEF RequestAssumption
  <2>3. GenerateBucketKeys(from, to, g) \subseteq DOMAIN body[1].data
    <3>1. body[1].data
            = AggregateReadings(asked.readings, request, g, request.aggregationType)
      BY <2>1, BucketsAnswer, DataOfAnswer
    <3>2. DOMAIN AggregateReadings(asked.readings, request, g, request.aggregationType)
            = KeysOf(Matching(asked.readings, request), g) \cup GenerateBucketKeys(from, to, g)
      BY <2>1, SlotsOfData, Zenon
    <3>3. DOMAIN body[1].data
            = KeysOf(Matching(asked.readings, request), g) \cup GenerateBucketKeys(from, to, g)
      BY <3>1, <3>2, Zenon
    <3> QED BY <3>3
  <2>4. from \in Int /\ to \in Int
    BY <2>2, InstantsHaveDays
  <2>5. CASE g = "hour"
    <3>1. \A time \in from..EndOfDay(to) : BucketKey(time, g) \in DOMAIN body[1].data
      <4>1. \A time \in from..EndOfDay(to) :
              BucketKey(time, "hour") \in GenerateBucketKeys(from, to, "hour")
        BY <2>4, HourSlots
      <4> QED BY <2>3, <2>5, <4>1
    <3> QED BY <2>1, <3>1, Zenon DEF NoSlotIsMissing
  <2>6. CASE g = "day"
    <3>1. \A time \in from..EndOfDay(to) : BucketKey(time, g) \in DOMAIN body[1].data
      <4>1. \A time \in from..EndOfDay(to) :
              BucketKey(time, "day") \in GenerateBucketKeys(from, to, "day")
        BY <2>4, DaySlots
      <4> QED BY <2>3, <2>6, <4>1
    <3> QED BY <2>1, <3>1, Zenon DEF NoSlotIsMissing
  <2>7. CASE g = "week"
    <3>1. InWeek(DayOf(from)) <= InWeek(DayOf(to)) =>
            \A time \in from..EndOfDay(to) : BucketKey(time, g) \in DOMAIN body[1].data
      BY <2>3, <2>4, <2>7, WeekSlots
    <3> QED BY <2>1, <2>7, <3>1, Zenon DEF NoSlotIsMissing, InWeek
  <2>8. CASE g = "month"
    <3>1. /\ InMonth(DayOf(from)) <= InMonth(DayOf(to))
          /\ \A m \in MonthOf(DayOf(from))..MonthOf(DayOf(to)) :
               InMonth(DayOf(from)) < MonthLengths[m]
          => \A time \in from..EndOfDay(to) : BucketKey(time, g) \in DOMAIN body[1].data
      BY <2>2, <2>3, <2>8, MonthSlots
    <3> QED BY <2>1, <2>8, <3>1, Zenon DEF NoSlotIsMissing, InMonth
  <2> QED BY <2>2, <2>5, <2>6, <2>7, <2>8 DEF Granularities
<1> QED BY <1>1, ExportsInvHolds, PTL

-----------------------------------------------------------------------------
(* Sums *)

AnyOf(s) == CHOOSE x \in s : TRUE

(* g is the sum of h over every set of B, taking out one element after      *)
(* another.                                                                *)
SumsUp(g, h, B) ==
  g = [s \in B |-> IF s = {} THEN 0 ELSE h[AnyOf(s)] + g[s \ {AnyOf(s)}]]

(* A sum over a finite set has a value: the recursion of the fold ends. *)
LEMMA SumsExist ==
  ASSUME NEW S, IsFiniteSet(S), NEW h
  PROVE  \E g : SumsUp(g, h, SUBSET S)
<1>1. PICK max \in Nat : max = Cardinality(S)
  BY FS_CardinalityType
<1>2. ASSUME NEW s \in SUBSET S PROVE IsFiniteSet(s) /\ Cardinality(s) \in 0..max
  <2>1. IsFiniteSet(s) /\ Cardinality(s) <= Cardinality(S)
    BY FS_Subset
  <2> QED BY <1>1, <2>1, FS_CardinalityType
<1>3. ASSUME NEW s \in SUBSET S, s # {}
      PROVE  s \ {AnyOf(s)} \in SUBSET S /\ Cardinality(s \ {AnyOf(s)}) = Cardinality(s) - 1
  <2>1. AnyOf(s) \in s
    BY <1>3 DEF AnyOf
  <2> QED BY <1>2, <2>1, FS_RemoveElement
<1> DEFINE UpTo(n) == {s \in SUBSET S : Cardinality(s) <= n}
           P == {n \in 0..max : \E g : SumsUp(g, h, UpTo(n))}
<1>4. 0 \in P
  <2>1. ASSUME NEW s \in UpTo(0) PROVE s = {}
    <3>1. Cardinality(s) = 0 /\ IsFiniteSet(s)
      BY <1>2
    <3> QED BY <3>1, FS_EmptySet
  <2>2. PICK g : g = [s \in UpTo(0) |-> 0]
    OBVIOUS
  <2>3. SumsUp(g, h, UpTo(0))
    <3> HIDE DEF UpTo
    <3> QED BY <2>1, <2>2 DEF SumsUp
  <2> QED BY <2>3
<1>5. ASSUME NEW n \in 0..(max - 1), n \in P PROVE n + 1 \in P
  <2>1. PICK g : SumsUp(g, h, UpTo(n))
    BY <1>5
  <2>2. PICK f : f = [s \in UpTo(n + 1) |->
                        IF s = {} THEN 0 ELSE h[AnyOf(s)] + g[s \ {AnyOf(s)}]]
    OBVIOUS
  <2>3. ASSUME NEW s \in UpTo(n + 1), s # {} PROVE s \ {AnyOf(s)} \in UpTo(n)
    <3>1. s \ {AnyOf(s)} \in SUBSET S /\ Cardinality(s \ {AnyOf(s)}) = Cardinality(s) - 1
      BY <1>3, <2>3
    <3>2. Cardinality(s) \in Int
      BY <1>2
    <3> QED BY <3>1, <3>2
  <2>4. ASSUME NEW s \in UpTo(n) PROVE s \in UpTo(n + 1)
    <3>1. Cardinality(s) \in Int
      BY <1>2
    <3> QED BY <3>1
  <2> HIDE DEF UpTo
  <2>5. ASSUME NEW s \in UpTo(n) PROVE f[s] = g[s]
    BY <2>1, <2>2, <2>4 DEF SumsUp
  <2>6. SumsUp(f, h, UpTo(n + 1))
    BY <2>2, <2>3, <2>5 DEF SumsUp
  <2> QED BY <2>6
<1>6. UpTo(max) = SUBSET S
  BY <1>2
<1> HIDE DEF P
<1>7. \A n \in 0..max : n \in P
  BY <1>4, <1>5, IntervalInduction
<1> QED BY <1>6, <1>7 DEF P

(* Sums over a set and over a subset of it agree. *)
LEMMA SumsAreUnique ==
  ASSUME NEW S, IsFiniteSet(S), NEW T \in SUBSET S, NEW h, NEW f, NEW g,
         SumsUp(f, h, SUBSET S), SumsUp(g, h, SUBSET T)
  PROVE  f[T] = g[T]
<1> SUFFICES \A s \in SUBSET T : f[s] = g[s]
  OBVIOUS
<1> DEFINE Bad == {s \in SUBSET T : f[s] # g[s]}
<1>1. SUFFICES ASSUME Bad # {} PROVE FALSE
  OBVIOUS
<1>2. PICK s \in Bad : \A u \in Bad : u \subseteq s => u = s
  <2>1. Bad \in SUBSET SUBSET S
    OBVIOUS
  <2> HIDE DEF Bad
  <2> QED BY <1>1, <2>1, LeastSubset
<1>3. s \in SUBSET S /\ s \in SUBSET T
  OBVIOUS
<1>4. /\ f[s] = IF s = {} THEN 0 ELSE h[AnyOf(s)] + f[s \ {AnyOf(s)}]
      /\ g[s] = IF s = {} THEN 0 ELSE h[AnyOf(s)] + g[s \ {AnyOf(s)}]
  BY <1>3 DEF SumsUp
<1>5. CASE s = {}
  BY <1>4, <1>5
<1>6. CASE s # {}
  <2>1. AnyOf(s) \in s
    BY <1>6 DEF AnyOf
  <2>2. s \ {AnyOf(s)} \in SUBSET T /\ s \ {AnyOf(s)} # s
    BY <1>3, <2>1
  <2>3. f[s \ {AnyOf(s)}] = g[s \ {AnyOf(s)}]
    BY <1>2, <2>2
  <2> QED BY <1>4, <1>6, <2>3
<1> QED BY <1>5, <1>6

(* SumFunctionOnSet() is that value. *)
LEMMA SumIsLast ==
  ASSUME NEW S, IsFiniteSet(S), NEW h, NEW g, SumsUp(g, h, SUBSET S)
  PROVE  SumFunctionOnSet(h, S) = g[S]
<1>1. PICK f : f = CHOOSE e : SumsUp(e, h, SUBSET S)
  OBVIOUS
<1>2. SumsUp(f, h, SUBSET S)
  BY <1>1, SumsExist, Zenon
<1>3. f[S] = g[S]
  BY <1>2, SumsAreUnique
<1>4. SumFunctionOnSet(h, S) = f[S]
  BY <1>1 DEF SumFunctionOnSet, FoldFunctionOnSet, MapThenFoldSet, SumsUp, AnyOf
<1> QED BY <1>3, <1>4

(* sum is the sum of h over every subset of S. *)
IsSum(sum, h, S) ==
  /\ sum = [T \in SUBSET S |-> SumFunctionOnSet(h, T)]
  /\ sum[{}] = 0
  /\ \A T \in SUBSET S : sum[T] \in Int
  /\ \A T \in SUBSET S : \A x \in T : sum[T] = h[x] + sum[T \ {x}]

(* The sums of all subsets, as one function. *)
LEMMA SumOfSets ==
  ASSUME NEW S, IsFiniteSet(S), NEW h, \A x \in S : h[x] \in Int
  PROVE  \E sum : IsSum(sum, h, S)
<1>1. PICK g : SumsUp(g, h, SUBSET S)
  BY SumsExist
<1>2. ASSUME NEW T \in SUBSET S PROVE SumFunctionOnSet(h, T) = g[T]
  <2>1. IsFiniteSet(T)
    BY FS_Subset
  <2>2. PICK f : SumsUp(f, h, SUBSET T)
    BY <2>1, SumsExist
  <2>3. g[T] = f[T]
    BY <1>1, <2>2, SumsAreUnique
  <2> QED BY <2>1, <2>2, <2>3, SumIsLast
<1>3. ASSUME NEW T \in SUBSET S
      PROVE  /\ T = {} => g[T] = 0
             /\ T # {} => /\ AnyOf(T) \in T /\ g[T] = h[AnyOf(T)] + g[T \ {AnyOf(T)}]
  BY <1>1 DEF SumsUp, AnyOf
<1>4. ASSUME NEW T \in SUBSET S PROVE g[T] \in Int
  <2> DEFINE Bad == {s \in SUBSET S : g[s] \notin Int}
  <2>1. SUFFICES ASSUME Bad # {} PROVE FALSE
    OBVIOUS
  <2>2. PICK s \in Bad : \A u \in Bad : u \subseteq s => u = s
    <3>1. Bad \in SUBSET SUBSET S
      OBVIOUS
    <3> HIDE DEF Bad
    <3> QED BY <2>1, <3>1, LeastSubset
  <2>3. s # {} /\ AnyOf(s) \in s /\ g[s] = h[AnyOf(s)] + g[s \ {AnyOf(s)}]
    BY <1>3
  <2>4. g[s \ {AnyOf(s)}] \in Int
    BY <2>2, <2>3
  <2> QED BY <2>3, <2>4
<1>5. ASSUME NEW T \in SUBSET S PROVE \A x \in T : g[T] = h[x] + g[T \ {x}]
  <2> DEFINE Bad == {s \in SUBSET S : \E x \in s : g[s] # h[x] + g[s \ {x}]}
  <2>1. SUFFICES ASSUME Bad # {} PROVE FALSE
    OBVIOUS
  <2>2. PICK s \in Bad : \A u \in Bad : u \subseteq s => u = s
    <3>1. Bad \in SUBSET SUBSET S
      OBVIOUS
    <3> HIDE DEF Bad
    <3> QED BY <2>1, <3>1, LeastSubset
  <2>3. PICK x \in s : g[s] # h[x] + g[s \ {x}]
    BY <2>2
  <2>4. PICK y \in s : g[s] = h[y] + g[s \ {y}]
    BY <1>3
  <2>5. x # y
    BY <2>3, <2>4
  <2>6. g[s \ {y}] = h[x] + g[(s \ {y}) \ {x}]
    <3>1. s \ {y} \in SUBSET S /\ x \in s \ {y} /\ s \ {y} # s /\ s \ {y} \subseteq s
      BY <2>2, <2>3, <2>4, <2>5
    <3>2. s \ {y} \notin Bad
      BY <2>2, <3>1
    <3> QED BY <3>1, <3>2
  <2>7. g[s \ {x}] = h[y] + g[(s \ {x}) \ {y}]
    <3>1. s \ {x} \in SUBSET S /\ y \in s \ {x} /\ s \ {x} # s /\ s \ {x} \subseteq s
      BY <2>2, <2>3, <2>4, <2>5
    <3>2. s \ {x} \notin Bad
      BY <2>2, <3>1
    <3> QED BY <3>1, <3>2
  <2>8. (s \ {y}) \ {x} = (s \ {x}) \ {y} /\ (s \ {y}) \ {x} \in SUBSET S
    OBVIOUS
  <2>9. PICK z \in Int : z = g[(s \ {y}) \ {x}]
    BY <1>4, <2>8
  <2>10. g[s \ {y}] = h[x] + z /\ g[s \ {x}] = h[y] + z
    BY <2>6, <2>7, <2>8, <2>9, Zenon
  <2>11. h[x] \in Int /\ h[y] \in Int
    OBVIOUS
  <2> QED BY <2>3, <2>4, <2>10, <2>11
<1>6. PICK sum : sum = [T \in SUBSET S |-> SumFunctionOnSet(h, T)]
  OBVIOUS
<1>7. \A T \in SUBSET S : sum[T] = g[T]
  BY <1>2, <1>6
<1>8. sum[{}] = 0
  BY <1>3, <1>7
<1>9. ASSUME NEW T \in SUBSET S, NEW x \in T PROVE sum[T] = h[x] + sum[T \ {x}]
  BY <1>5, <1>7
<1>10. \A T \in SUBSET S : sum[T] \in Int
  BY <1>4, <1>7
<1>11. IsSum(sum, h, S)
  BY <1>6, <1>8, <1>9, <1>10 DEF IsSum
<1> QED BY <1>11, Zenon

(* The sum of two sets apart is the sum of their sums. *)
LEMMA SumIsAdditive ==
  ASSUME NEW R, IsFiniteSet(R), NEW h, NEW sum, IsSum(sum, h, R), \A x \in R : h[x] \in Int,
         NEW A \in SUBSET R, NEW B \in SUBSET R, A \cap B = {}
  PROVE  sum[A \cup B] = sum[A] + sum[B]
<1>0. /\ sum[{}] = 0 /\ \A T \in SUBSET R : sum[T] \in Int
      /\ \A T \in SUBSET R : \A x \in T : sum[T] = h[x] + sum[T \ {x}]
  BY DEF IsSum
<1>1. PICK P : P = {T \in SUBSET B : sum[A \cup T] = sum[A] + sum[T]}
  OBVIOUS
<1>2. {} \in P
  <2>1. A \cup {} = A /\ sum[A] \in Int
    BY <1>0
  <2> QED BY <1>0, <1>1, <2>1
<1>3. ASSUME NEW T \in SUBSET B, NEW x \in B \ T, T \in P PROVE T \cup {x} \in P
  <2>1. sum[A \cup T] = sum[A] + sum[T] /\ T \in SUBSET B
    BY <1>1, <1>3
  <2>2. /\ T \cup {x} \in SUBSET R /\ x \in T \cup {x} /\ (T \cup {x}) \ {x} = T
        /\ A \cup (T \cup {x}) \in SUBSET R /\ x \in A \cup (T \cup {x})
        /\ (A \cup (T \cup {x})) \ {x} = A \cup T
    BY <1>3
  <2>3. sum[T \cup {x}] = h[x] + sum[T]
    BY <1>0, <2>2
  <2>4. sum[A \cup (T \cup {x})] = h[x] + sum[A \cup T]
    BY <1>0, <2>2
  <2>5. h[x] \in Int /\ sum[T] \in Int /\ sum[A] \in Int
    BY <1>0
  <2>6. sum[A \cup (T \cup {x})] = sum[A] + sum[T \cup {x}]
    BY <2>1, <2>3, <2>4, <2>5
  <2> QED BY <1>1, <2>1, <2>6
<1>4. IsFiniteSet(B)
  BY FS_Subset
<1>5. B \in P
  BY <1>2, <1>3, <1>4, FiniteInduction
<1> QED BY <1>1, <1>5

Union(X, J) == UNION {X[i] : i \in J}

(* The sums of the parts of a set add up to the sum of all of them. *)
LEMMA SumOfParts ==
  ASSUME NEW R, IsFiniteSet(R), NEW h, \A x \in R : h[x] \in Int,
         NEW I, IsFiniteSet(I), NEW X, \A i \in I : X[i] \in SUBSET R,
         \A i, j \in I : i # j => X[i] \cap X[j] = {},
         NEW k, \A i \in I : k[i] = SumFunctionOnSet(h, X[i])
  PROVE  /\ Union(X, I) \in SUBSET R
         /\ SumFunctionOnSet(k, I) = SumFunctionOnSet(h, Union(X, I))
<1>1. PICK sum : IsSum(sum, h, R)
  BY SumOfSets
<1>2. /\ sum[{}] = 0 /\ \A T \in SUBSET R : sum[T] \in Int /\ sum[T] = SumFunctionOnSet(h, T)
  BY <1>1 DEF IsSum
<1>3. \A i \in I : k[i] = sum[X[i]] /\ k[i] \in Int
  BY <1>2
<1>4. PICK ksum : IsSum(ksum, k, I)
  BY <1>3, SumOfSets
<1>5. /\ ksum[{}] = 0 /\ \A J \in SUBSET I : ksum[J] \in Int /\ ksum[J] = SumFunctionOnSet(k, J)
      /\ \A J \in SUBSET I : \A i \in J : ksum[J] = k[i] + ksum[J \ {i}]
  BY <1>4 DEF IsSum
<1>6. PICK P : P = {J \in SUBSET I : ksum[J] = sum[Union(X, J)]}
  OBVIOUS
<1>7. {} \in P
  <2>1. Union(X, {}) = {}
    BY DEF Union
  <2> QED BY <1>2, <1>5, <1>6, <2>1
<1>8. ASSUME NEW J \in SUBSET I PROVE Union(X, J) \in SUBSET R
  BY DEF Union
<1>9. ASSUME NEW J \in SUBSET I, NEW i \in I \ J, J \in P PROVE J \cup {i} \in P
  <2>1. ksum[J] = sum[Union(X, J)] /\ J \in SUBSET I
    BY <1>6, <1>9
  <2>2. Union(X, J \cup {i}) = Union(X, J) \cup X[i] /\ Union(X, J) \cap X[i] = {}
    BY <1>9 DEF Union
  <2>3. PICK U \in SUBSET R, V \in SUBSET R : U = Union(X, J) /\ V = X[i]
    BY <1>8
  <2>4. sum[U \cup V] = sum[U] + sum[V]
    <3>1. U \cap V = {}
      BY <2>2, <2>3
    <3> QED BY <1>1, <3>1, SumIsAdditive
  <2>5. PICK L \in SUBSET I : L = J \cup {i}
    BY <1>9
  <2>6. i \in L /\ L \ {i} = J
    BY <1>9, <2>5
  <2>7. ksum[L] = k[i] + ksum[J]
    <3>1. ksum[L] = k[i] + ksum[L \ {i}]
      BY <1>5, <2>6
    <3> QED BY <2>6, <3>1
  <2>8. sum[U] \in Int /\ sum[V] \in Int /\ k[i] = sum[V] /\ ksum[J] = sum[U]
    BY <1>2, <1>3, <2>1, <2>3
  <2>9. ksum[L] = sum[U \cup V] /\ U \cup V = Union(X, L)
    <3>1. ksum[L] = sum[U \cup V]
      BY <2>4, <2>7, <2>8
    <3> QED BY <2>2, <2>3, <2>5, <3>1
  <2> QED BY <1>6, <2>5, <2>9
<1>10. I \in P
  BY <1>7, <1>9, FiniteInduction
<1> QED BY <1>2, <1>5, <1>6, <1>8, <1>10

(* A sum of one term. *)
LEMMA SumOfOne ==
  ASSUME NEW x, NEW h, h[x] \in Int
  PROVE  SumFunctionOnSet(h, {x}) = h[x]
<1>1. IsFiniteSet({x}) /\ \A y \in {x} : h[y] \in Int
  BY FS_Singleton
<1>2. PICK sum : IsSum(sum, h, {x})
  BY <1>1, SumOfSets
<1>3. /\ sum[{}] = 0 /\ sum[{x}] = SumFunctionOnSet(h, {x}) /\ sum[{x}] = h[x] + sum[{x} \ {x}]
  BY <1>2 DEF IsSum
<1> QED BY <1>3

(* f names each member of R by one of I. *)
Names(f, I, R) ==
  /\ \A i \in I : f[i] \in R
  /\ \A i, j \in I : i # j => f[i] # f[j]
  /\ \A x \in R : \E i \in I : f[i] = x

(* A sum over the names is the sum over what they name. *)
LEMMA SumOfImages ==
  ASSUME NEW R, IsFiniteSet(R), NEW h, \A x \in R : h[x] \in Int,
         NEW I, IsFiniteSet(I), NEW f, Names(f, I, R), NEW k, \A i \in I : k[i] = h[f[i]]
  PROVE  SumFunctionOnSet(k, I) = SumFunctionOnSet(h, R)
<1>0. /\ \A i \in I : f[i] \in R
      /\ \A i, j \in I : i # j => f[i] # f[j]
      /\ \A x \in R : \E i \in I : f[i] = x
  BY DEF Names
<1>1. PICK X : X = [i \in I |-> {f[i]}]
  OBVIOUS
<1>2. /\ \A i \in I : X[i] = {f[i]} /\ X[i] \in SUBSET R
      /\ \A i, j \in I : i # j => X[i] \cap X[j] = {}
  BY <1>0, <1>1
<1>3. \A i \in I : k[i] = SumFunctionOnSet(h, X[i])
  <2>1. ASSUME NEW i \in I PROVE k[i] = SumFunctionOnSet(h, X[i])
    <3>1. h[f[i]] \in Int /\ k[i] = h[f[i]]
      BY <1>0
    <3>2. SumFunctionOnSet(h, {f[i]}) = h[f[i]]
      BY <3>1, SumOfOne
    <3> QED BY <1>2, <3>1, <3>2
  <2> QED BY <2>1
<1>4. SumFunctionOnSet(k, I) = SumFunctionOnSet(h, Union(X, I))
  BY <1>2, <1>3, SumOfParts
<1>5. Union(X, I) = R
  BY <1>0, <1>2 DEF Union
<1> QED BY <1>4, <1>5

(* The sum of ones counts. *)
LEMMA SumOfOnes ==
  ASSUME NEW R, IsFiniteSet(R), NEW h, \A x \in R : h[x] = 1
  PROVE  \A T \in SUBSET R : SumFunctionOnSet(h, T) = Cardinality(T)
<1>1. PICK sum : IsSum(sum, h, R)
  BY SumOfSets
<1>2. /\ sum[{}] = 0 /\ \A T \in SUBSET R : sum[T] \in Int /\ sum[T] = SumFunctionOnSet(h, T)
      /\ \A T \in SUBSET R : \A x \in T : sum[T] = h[x] + sum[T \ {x}]
  BY <1>1 DEF IsSum
<1>3. ASSUME NEW A \in SUBSET R PROVE sum[A] = Cardinality(A)
  <2>1. PICK P : P = {T \in SUBSET A : sum[T] = Cardinality(T)}
    OBVIOUS
  <2>2. {} \in P
    BY <1>2, <2>1, FS_EmptySet
  <2>3. IsFiniteSet(A)
    BY FS_Subset
  <2>4. ASSUME NEW T \in SUBSET A, NEW x \in A \ T, T \in P PROVE T \cup {x} \in P
    <3>1. IsFiniteSet(T) /\ sum[T] = Cardinality(T)
      BY <2>1, <2>3, <2>4, FS_Subset
    <3>2. Cardinality(T \cup {x}) = Cardinality(T) + 1
      BY <2>4, <3>1, FS_AddElement
    <3>3. sum[T \cup {x}] = 1 + sum[T]
      <4>1. T \cup {x} \in SUBSET R /\ x \in T \cup {x} /\ (T \cup {x}) \ {x} = T /\ h[x] = 1
        BY <2>4
      <4> QED BY <1>2, <4>1
    <3>4. sum[T \cup {x}] = Cardinality(T \cup {x}) /\ T \cup {x} \in SUBSET A
      <4>1. sum[T] \in Int
        BY <1>2
      <4> QED BY <3>1, <3>2, <3>3, <4>1
    <3> QED BY <2>1, <3>4
  <2>5. A \in P
    BY <2>2, <2>3, <2>4, FiniteInduction
  <2> QED BY <2>1, <2>5
<1> QED BY <1>2, <1>3

(* The sizes of the parts of a set add up to that of all of them. *)
LEMMA CountOfParts ==
  ASSUME NEW R, IsFiniteSet(R), NEW I, IsFiniteSet(I), NEW X, \A i \in I : X[i] \in SUBSET R,
         \A i, j \in I : i # j => X[i] \cap X[j] = {},
         NEW k, \A i \in I : k[i] = Cardinality(X[i])
  PROVE  SumFunctionOnSet(k, I) = Cardinality(Union(X, I))
<1>1. PICK h : h = [x \in R |-> 1]
  OBVIOUS
<1>2. \A x \in R : h[x] = 1
  BY <1>1
<1>3. \A T \in SUBSET R : SumFunctionOnSet(h, T) = Cardinality(T)
  BY <1>2, SumOfOnes
<1>4. \A i \in I : k[i] = SumFunctionOnSet(h, X[i])
  BY <1>3
<1>5. /\ Union(X, I) \in SUBSET R
      /\ SumFunctionOnSet(k, I) = SumFunctionOnSet(h, Union(X, I))
  BY <1>2, <1>4, SumOfParts
<1> QED BY <1>3, <1>5

(* A sum of terms between two bounds. *)
LEMMA SumIsBetween ==
  ASSUME NEW R, IsFiniteSet(R), NEW h, NEW a \in Int, NEW b \in Int,
         \A x \in R : h[x] \in a..b
  PROVE  SumFunctionOnSet(h, R) \in (Cardinality(R) * a)..(Cardinality(R) * b)
<1>1. PICK sum : IsSum(sum, h, R)
  BY SumOfSets
<1>2. /\ sum[{}] = 0 /\ \A T \in SUBSET R : sum[T] \in Int
      /\ \A T \in SUBSET R : \A x \in T : sum[T] = h[x] + sum[T \ {x}]
      /\ sum[R] = SumFunctionOnSet(h, R)
  BY <1>1 DEF IsSum
<1>3. PICK P : P = {T \in SUBSET R : sum[T] \in (Cardinality(T) * a)..(Cardinality(T) * b)}
  OBVIOUS
<1>4. {} \in P
  BY <1>2, <1>3, FS_EmptySet
<1>5. ASSUME NEW T \in SUBSET R, NEW x \in R \ T, T \in P PROVE T \cup {x} \in P
  <2>1. IsFiniteSet(T) /\ sum[T] \in (Cardinality(T) * a)..(Cardinality(T) * b)
    BY <1>3, <1>5, FS_Subset
  <2>2. PICK n \in Nat : n = Cardinality(T) /\ Cardinality(T \cup {x}) = n + 1
    BY <1>5, <2>1, FS_AddElement, FS_CardinalityType
  <2>3. sum[T \cup {x}] = h[x] + sum[T]
    <3>1. T \cup {x} \in SUBSET R /\ x \in T \cup {x} /\ (T \cup {x}) \ {x} = T
      BY <1>5
    <3> QED BY <1>2, <3>1
  <2>4. (n + 1) * a = n * a + a /\ (n + 1) * b = n * b + b /\ n * a \in Int /\ n * b \in Int
    OBVIOUS
  <2>5. PICK s \in Int, e \in Int, na \in Int, nb \in Int :
          s = sum[T] /\ e = h[x] /\ na = n * a /\ nb = n * b
    BY <1>2, <2>4
  <2>6. na <= s /\ s <= nb /\ a <= e /\ e <= b
    BY <2>1, <2>2, <2>5
  <2>7. e + s \in (na + a)..(nb + b)
    BY <2>6
  <2>8. sum[T \cup {x}] \in ((n + 1) * a)..((n + 1) * b)
    BY <2>3, <2>4, <2>5, <2>7
  <2> QED BY <1>3, <2>2, <2>8
<1>6. R \in P
  BY <1>4, <1>5, FiniteInduction
<1> QED BY <1>2, <1>3, <1>6

-----------------------------------------------------------------------------
(* Totals *)

LEMMA InstantsAreTimes == \A t \in Instants : t \in Int
<1>1. Instants \subseteq Nat
  BY InstantsHaveDays
<1> QED BY <1>1

(* Values() has the value of each reading once. *)
LEMMA ValuesInOrder ==
  ASSUME NEW A, Readable(A), NEW f, f = Values(A)
  PROVE  \E rows : /\ InOrderOfIds(rows, A)
                   /\ f = [i \in 1..Cardinality(A) |-> rows[i].value]
<1>1. InOrderOfIds(Ordered(A, LAMBDA r, s : r.id < s.id), A)
  BY ReadableInOrder, Zenon
<1>2. PICK rows : InOrderOfIds(rows, A) /\ f = [i \in DOMAIN rows |-> rows[i].value]
  BY <1>1, Zenon DEF Values
<1>3. DOMAIN rows = 1..Cardinality(A)
  BY <1>2 DEF InOrderOfIds
<1> QED BY <1>2, <1>3

(* The total of readings does not depend on their order. *)
LEMMA SumOfReadings ==
  ASSUME NEW A, Readable(A), NEW h, \A r \in A : h[r] = r.value, NEW R \in SUBSET A
  PROVE  SumOf(R) = SumFunctionOnSet(h, R) /\ IsFiniteSet(R) /\ \A r \in R : h[r] \in Int
<1>1. Readable(R) /\ IsFiniteSet(R) /\ \A r \in R : h[r] \in Int /\ h[r] = r.value
  BY SomeAreReadable DEF Readable
<1>2. PICK f : f = Values(R)
  OBVIOUS
<1>3. PICK rows : InOrderOfIds(rows, R) /\ f = [i \in 1..Cardinality(R) |-> rows[i].value]
  BY <1>1, <1>2, ValuesInOrder
<1>4. PICK n \in Nat : n = Cardinality(R)
  BY <1>3 DEF InOrderOfIds
<1>5. /\ DOMAIN f = 1..n /\ \A i \in 1..n : rows[i] \in R /\ f[i] = h[rows[i]]
      /\ \A x \in R : \E i \in 1..n : rows[i] = x
  BY <1>1, <1>3, <1>4 DEF InOrderOfIds
<1>6. ASSUME NEW i \in 1..n, NEW j \in 1..n, i # j PROVE rows[i] # rows[j]
  <2>1. rows[i].id \in Int /\ rows[j].id \in Int
    <3>1. rows[i].id \in 1..MaxReadings /\ rows[j].id \in 1..MaxReadings
      BY <1>1, <1>5 DEF Readable
    <3> QED BY <3>1
  <2>2. (i < j => rows[i].id < rows[j].id) /\ (j < i => rows[j].id < rows[i].id)
    BY <1>3, <1>4 DEF InOrderOfIds
  <2> QED BY <1>6, <2>1, <2>2
<1>7. IsFiniteSet(1..n)
  BY FS_Interval
<1>8. SumFunctionOnSet(f, 1..n) = SumFunctionOnSet(h, R)
  <2>1. Names(rows, 1..n, R)
    BY <1>5, <1>6 DEF Names
  <2> QED BY <1>1, <1>5, <1>7, <2>1, SumOfImages
<1>9. SumOf(R) = SumFunctionOnSet(f, 1..n)
  BY <1>2, <1>5 DEF SumOf, Total, SumFunction
<1> QED BY <1>1, <1>8, <1>9

(* The totals of a summary of parts of A are the total of these parts.      *)
LEMMA TotalOfParts ==
  ASSUME NEW A, Readable(A), NEW n \in Nat, NEW X, \A i \in 1..n : X[i] \in SUBSET A,
         \A i, j \in 1..n : i # j => X[i] \cap X[j] = {},
         NEW k, DOMAIN k = 1..n, \A i \in 1..n : k[i] = SumOf(X[i])
  PROVE  SumFunction(k) = SumOf(Union(X, 1..n))
<1>1. PICK h : h = [r \in A |-> r.value]
  OBVIOUS
<1>0. \A r \in A : h[r] = r.value
  BY <1>1
<1>2. IsFiniteSet(A) /\ \A r \in A : h[r] \in Int
  BY <1>0 DEF Readable
<1>3. \A i \in 1..n : k[i] = SumFunctionOnSet(h, X[i])
  BY <1>0, SumOfReadings
<1>4. IsFiniteSet(1..n)
  BY FS_Interval
<1>5. /\ Union(X, 1..n) \in SUBSET A
      /\ SumFunctionOnSet(k, 1..n) = SumFunctionOnSet(h, Union(X, 1..n))
  BY <1>2, <1>3, <1>4, SumOfParts
<1>6. SumOf(Union(X, 1..n)) = SumFunctionOnSet(h, Union(X, 1..n))
  BY <1>0, <1>5, SumOfReadings
<1> QED BY <1>5, <1>6 DEF SumFunction

(* What is in order is there once. *)
LEMMA InOrderIsDistinct ==
  ASSUME NEW f, NEW S \in SUBSET Int, InOrder(f, S)
  PROVE  \A i, j \in 1..Cardinality(S) : i # j => f[i] # f[j]
<1>1. Cardinality(S) \in Nat /\ \A i \in 1..Cardinality(S) : f[i] \in Int
  BY DEF InOrder
<1>2. \A i, j \in 1..Cardinality(S) : i < j => f[i] < f[j]
  BY DEF InOrder
<1> QED BY <1>1, <1>2

(* k are the totals of the buckets of A. *)
AreTotals(k, A, g, keys) ==
  /\ DOMAIN k = 1..Cardinality(KeysOf(A, g))
  /\ \A i \in 1..Cardinality(KeysOf(A, g)) : k[i] = SumOf(BucketOf(A, g, keys[i]))

(* The buckets of A are all of A. *)
LEMMA TotalOfBuckets ==
  ASSUME NEW A, Readable(A), NEW g \in Granularities, NEW keys, InOrder(keys, KeysOf(A, g)),
         NEW k, AreTotals(k, A, g, keys)
  PROVE  SumFunction(k) = SumOf(A)
<1>1. PICK n \in Nat : n = Cardinality(KeysOf(A, g))
  BY DEF InOrder
<1>2. /\ \A i \in 1..n : keys[i] \in KeysOf(A, g)
      /\ \A key \in KeysOf(A, g) : \E i \in 1..n : keys[i] = key
  BY <1>1 DEF InOrder
<1>3. \A i, j \in 1..n : i # j => keys[i] # keys[j]
  BY <1>1, KeysAreFinite, InOrderIsDistinct
<1>4. PICK X : X = [i \in 1..n |-> BucketOf(A, g, keys[i])]
  OBVIOUS
<1>5. \A i \in 1..n : X[i] \in SUBSET A /\ k[i] = SumOf(X[i])
  BY <1>1, <1>4 DEF BucketOf, AreTotals
<1>6. \A i, j \in 1..n : i # j => X[i] \cap X[j] = {}
  BY <1>3, <1>4 DEF BucketOf
<1>7. Union(X, 1..n) = A
  <2>1. ASSUME NEW r \in A PROVE \E i \in 1..n : r \in X[i]
    <3>1. BucketKey(r.time, g) \in KeysOf(A, g)
      BY DEF KeysOf
    <3>2. PICK i \in 1..n : keys[i] = BucketKey(r.time, g)
      BY <1>2, <3>1
    <3> QED BY <1>4, <3>2 DEF BucketOf
  <2> QED BY <1>5, <2>1 DEF Union
<1>8. SumFunction(k) = SumOf(Union(X, 1..n))
  <2>1. DOMAIN k = 1..n
    BY <1>1 DEF AreTotals
  <2> QED BY <1>5, <1>6, <2>1, TotalOfParts
<1> QED BY <1>7, <1>8

(* The days of a request. *)
LEMMA DaysOfRequest ==
  ASSUME NEW A, Readable(A), NEW q, {q.startDate, q.endDate} \subseteq Instants \cup {Null},
         NEW r \in A
  PROVE  IsDayOf(q, BucketKey(r.time, "day")) <=> r \in InDays(A, q)
<1>1. PICK t \in Int, key \in Int : t = r.time /\ key = BucketKey(t, "day")
  <2>1. r.time \in Instants /\ r.time \in Int
    <3>1. r.time \in Instants
      BY DEF Readable
    <3> QED BY <3>1, InstantsAreTimes
  <2>2. BucketKey(r.time, "day") \in Int
    BY <2>1, BucketKeysAreTimes DEF Granularities
  <2> QED BY <2>1, <2>2
<1>2. key = StartOfDay(DayOf(t)) /\ DayOf(t) \in Int
  BY <1>1, BucketKeyDay, DayOfTime
<1>3. ASSUME NEW u \in Int
      PROVE  /\ key >= StartOfDay(DayOf(u)) <=> DayOf(u) <= DayOf(t)
             /\ key <= u <=> DayOf(t) <= DayOf(u)
  <2>1. /\ DayOf(u) \in Int /\ StartOfDay(DayOf(u)) \in Int
        /\ StartOfDay(DayOf(u)) <= u /\ u < StartOfDay(DayOf(u)) + HoursInDay
    BY DayOfTime
  <2>2. DayOf(t) < DayOf(u) <=> key + HoursInDay <= StartOfDay(DayOf(u))
    BY <1>2, <2>1, DaysInOrder
  <2>3. DayOf(u) < DayOf(t) <=> StartOfDay(DayOf(u)) + HoursInDay <= key
    BY <1>2, <2>1, DaysInOrder
  <2>4. DayOf(t) = DayOf(u) => key = StartOfDay(DayOf(u))
    BY <1>2
  <2>5. HoursInDay \in Int /\ HoursInDay > 0
    BY HoursArePositive
  <2> QED BY <1>2, <2>1, <2>2, <2>3, <2>4, <2>5
<1>4. /\ q.startDate # Null => q.startDate \in Int
      /\ q.endDate # Null => q.endDate \in Int
  <2>1. /\ q.startDate # Null => q.startDate \in Instants
        /\ q.endDate # Null => q.endDate \in Instants
    OBVIOUS
  <2> QED BY <2>1, InstantsAreTimes
<1> QED BY <1>1, <1>3, <1>4 DEF IsDayOf, InDays

(* Orders by one number and, where it is the same, by another. *)
ByBoth(S, a, b, before) ==
  /\ before \in [S -> SUBSET S] /\ \A x \in S : a[x] \in Int /\ b[x] \in Int
  /\ \A x, y \in S : b[x] = b[y] => x = y
  /\ \A x, y \in S : x \in before[y] <=> a[x] < a[y] \/ (a[x] = a[y] /\ b[x] < b[y])

(* That is a strict order. *)
LEMMA ByBothIsOrder ==
  ASSUME NEW S, NEW a, NEW b, NEW before, ByBoth(S, a, b, before)
  PROVE  IsOrder(S, before)
<1>1. /\ before \in [S -> SUBSET S] /\ \A x \in S : a[x] \in Int /\ b[x] \in Int
      /\ \A x, y \in S : b[x] = b[y] => x = y
      /\ \A x, y \in S : x \in before[y] <=> a[x] < a[y] \/ (a[x] = a[y] /\ b[x] < b[y])
  BY DEF ByBoth
<1>2. ASSUME NEW x \in S PROVE x \notin before[x]
  BY <1>1
<1>3. ASSUME NEW x \in S, NEW y \in S, x \in before[y], NEW z \in before[x]
      PROVE  z \in before[y]
  <2>1. z \in S
    BY <1>1
  <2>2. /\ a[z] < a[x] \/ (a[z] = a[x] /\ b[z] < b[x])
        /\ a[x] < a[y] \/ (a[x] = a[y] /\ b[x] < b[y])
    BY <1>1, <1>3, <2>1
  <2>3. a[z] < a[y] \/ (a[z] = a[y] /\ b[z] < b[y])
    BY <1>1, <2>1, <2>2
  <2> QED BY <1>1, <2>1, <2>3
<1>4. ASSUME NEW x \in S, NEW y \in S PROVE x = y \/ x \in before[y] \/ y \in before[x]
  BY <1>1
<1> QED BY <1>1, <1>2, <1>3, <1>4 DEF IsOrder

(* The first reading of each day. *)
IsFirst(R, b) ==
  \A d \in DaysOf(R) :
    \E r \in R : /\ BucketKey(r.time, "day") = d /\ b[d] = r.id
                 /\ \A s \in R : BucketKey(s.time, "day") = d => r.id <= s.id

(* Each day has a first reading. *)
LEMMA FirstsExist ==
  ASSUME NEW R, Readable(R)
  PROVE  \E b : IsFirst(R, b)
<1>1. ASSUME NEW d \in DaysOf(R)
      PROVE  \E r \in R : /\ BucketKey(r.time, "day") = d
                          /\ \A s \in R : BucketKey(s.time, "day") = d => r.id <= s.id
  <2>1. PICK B : B = {r.id : r \in {s \in R : BucketKey(s.time, "day") = d}}
    OBVIOUS
  <2>2. B \in SUBSET Nat /\ B # {}
    <3>1. ASSUME NEW r \in R PROVE r.id \in Nat
      BY StoreAssumption DEF Readable, StoreAssumption
    <3> QED BY <2>1, <3>1 DEF DaysOf
  <2>3. PICK m \in B : \A i \in B : m <= i
    BY <2>2, LeastNatural
  <2> QED BY <2>1, <2>3
<1>2. PICK f : f = [d \in DaysOf(R) |->
                      CHOOSE r \in R : /\ BucketKey(r.time, "day") = d
                        /\ \A s \in R : BucketKey(s.time, "day") = d => r.id <= s.id]
  OBVIOUS
<1>3. \A d \in DaysOf(R) : /\ f[d] \in R /\ BucketKey(f[d].time, "day") = d
        /\ \A s \in R : BucketKey(s.time, "day") = d => f[d].id <= s.id
  BY <1>1, <1>2
<1>4. PICK b : b = [d \in DaysOf(R) |-> f[d].id]
  OBVIOUS
<1>5. \A d \in DaysOf(R) : b[d] = f[d].id
  BY <1>4
<1> QED BY <1>3, <1>5 DEF IsFirst

(* The peak day of a week is one of its days. *)
LEMMA PeakDayIsDay ==
  ASSUME NEW A, Readable(A), NEW R \in SUBSET A, R # {}
  PROVE  PeakDay(R) \in DaysOf(R)
<1>1. Readable(R) /\ IsFiniteSet(R)
  BY SomeAreReadable DEF Readable
<1>2. PICK S : S = DaysOf(R)
  OBVIOUS
<1>3. IsFiniteSet(S) /\ S # {} /\ S = KeysOf(R, "day")
  <2>1. S = KeysOf(R, "day") /\ S # {}
    BY <1>2 DEF DaysOf, KeysOf
  <2> QED BY <1>1, <2>1, KeysAreFinite DEF Granularities
<1>4. PICK before :
        before = [x \in S |-> {y \in S :
                    \/ SumOf(OfDay(R, y)) > SumOf(OfDay(R, x))
                    \/ /\ SumOf(OfDay(R, y)) = SumOf(OfDay(R, x))
                       /\ \E r \in OfDay(R, y) : \A s \in OfDay(R, x) : r.id < s.id}]
  OBVIOUS
<1>5. PeakDay(R) = Enumerated(S, before)[1]
  BY <1>2, <1>4, Zenon DEF PeakDay, Ordered
<1>6. /\ before \in [S -> SUBSET S]
      /\ \A x, y \in S : y \in before[x] <=>
           \/ SumOf(OfDay(R, y)) > SumOf(OfDay(R, x))
           \/ /\ SumOf(OfDay(R, y)) = SumOf(OfDay(R, x))
              /\ \E r \in OfDay(R, y) : \A s \in OfDay(R, x) : r.id < s.id
  BY <1>4
<1>7. PICK total : \A d \in S : total[d] = SumOf(OfDay(R, d)) /\ total[d] \in Int
  <2>1. PICK h : h = [r \in A |-> r.value]
    OBVIOUS
  <2>2. \A r \in A : h[r] = r.value
    BY <2>1
  <2>3. ASSUME NEW d \in S PROVE SumOf(OfDay(R, d)) \in Int
    <3>1. OfDay(R, d) \in SUBSET A
      BY DEF OfDay
    <3>2. PICK T \in SUBSET A : T = OfDay(R, d)
      BY <3>1
    <3>3. SumOf(T) = SumFunctionOnSet(h, T) /\ IsFiniteSet(T) /\ \A r \in T : h[r] \in Int
      BY <2>2, SumOfReadings
    <3>4. PICK sum : IsSum(sum, h, T)
      BY <3>3, SumOfSets
    <3>5. SumFunctionOnSet(h, T) \in Int
      <4>1. sum = [U \in SUBSET T |-> SumFunctionOnSet(h, U)] /\ sum[T] \in Int
        BY <3>4 DEF IsSum
      <4> QED BY <4>1
    <3> QED BY <3>2, <3>3, <3>5
  <2>4. PICK total : total = [d \in S |-> SumOf(OfDay(R, d))]
    OBVIOUS
  <2> QED BY <2>3, <2>4
<1>8. PICK b : IsFirst(R, b)
  BY <1>1, FirstsExist
<1>9. PICK first : first = [d \in S |-> b[d]]
  OBVIOUS
<1>10. \A d \in S : \E r \in R :
         /\ BucketKey(r.time, "day") = d /\ first[d] = r.id /\ r.id \in Int
         /\ \A s \in R : BucketKey(s.time, "day") = d => r.id <= s.id
  <2>1. \A r \in R : r.id \in Int
    BY <1>1, StoreAssumption DEF Readable, StoreAssumption
  <2> QED BY <1>2, <1>8, <1>9, <2>1 DEF IsFirst
<1>11. ASSUME NEW x \in S, NEW y \in S, first[x] = first[y] PROVE x = y
  <2>1. PICK r \in R : BucketKey(r.time, "day") = x /\ first[x] = r.id
    BY <1>10
  <2>2. PICK s \in R : BucketKey(s.time, "day") = y /\ first[y] = s.id
    BY <1>10
  <2>3. r = s
    BY <1>1, <1>11, <2>1, <2>2 DEF Readable
  <2> QED BY <2>1, <2>2, <2>3
<1>12. ASSUME NEW x \in S, NEW y \in S
       PROVE  (\E r \in OfDay(R, y) : \A s \in OfDay(R, x) : r.id < s.id) <=> first[y] < first[x]
  <2>1. PICK s1 \in R : /\ BucketKey(s1.time, "day") = x /\ first[x] = s1.id /\ s1.id \in Int
                        /\ \A s \in R : BucketKey(s.time, "day") = x => s1.id <= s.id
    BY <1>10
  <2>2. PICK r1 \in R : /\ BucketKey(r1.time, "day") = y /\ first[y] = r1.id /\ r1.id \in Int
                        /\ \A s \in R : BucketKey(s.time, "day") = y => r1.id <= s.id
    BY <1>10
  <2>3. \A r \in R : r.id \in Int
    BY <1>1, StoreAssumption DEF Readable, StoreAssumption
  <2>4. r1 \in OfDay(R, y) /\ s1 \in OfDay(R, x)
    BY <2>1, <2>2 DEF OfDay
  <2>5. ASSUME NEW r \in OfDay(R, y), \A s \in OfDay(R, x) : r.id < s.id
        PROVE  first[y] < first[x]
    <3>1. r \in R /\ r1.id <= r.id /\ r.id < s1.id
      BY <2>2, <2>4, <2>5 DEF OfDay
    <3> QED BY <2>1, <2>2, <2>3, <3>1
  <2>6. ASSUME first[y] < first[x], NEW s \in OfDay(R, x) PROVE r1.id < s.id
    <3>1. s \in R /\ s1.id <= s.id
      BY <2>1, <2>6 DEF OfDay
    <3> QED BY <2>1, <2>2, <2>3, <2>6, <3>1
  <2> QED BY <2>4, <2>5, <2>6
<1>13. PICK a : a = [d \in S |-> -total[d]]
  OBVIOUS
<1>14. \A d \in S : a[d] = -total[d] /\ a[d] \in Int /\ first[d] \in Int
  BY <1>7, <1>10, <1>13
<1>15. ASSUME NEW x \in S, NEW y \in S
       PROVE  y \in before[x] <=> a[y] < a[x] \/ (a[y] = a[x] /\ first[y] < first[x])
  <2>1. y \in before[x] <=> total[y] > total[x] \/ (total[y] = total[x] /\ first[y] < first[x])
    BY <1>6, <1>7, <1>12
  <2>2. total[x] \in Int /\ total[y] \in Int
    BY <1>7
  <2>3. total[y] > total[x] <=> a[y] < a[x]
    BY <1>14, <2>2
  <2>4. total[y] = total[x] <=> a[y] = a[x]
    BY <1>14, <2>2
  <2> QED BY <2>1, <2>3, <2>4
<1>16. ByBoth(S, a, first, before)
  BY <1>6, <1>11, <1>14, <1>15 DEF ByBoth
<1>17. PICK f : f = Enumerated(S, before)
  OBVIOUS
<1>18. Enumerates(f, S, before)
  BY <1>3, <1>16, <1>17, ByBothIsOrder, EnumeratedEnumerates
<1>19. 1 \in 1..Cardinality(S)
  <2>1. Cardinality(S) \in Nat /\ Cardinality(S) # 0
    BY <1>3, FS_CardinalityType, FS_EmptySet
  <2> QED BY <2>1
<1>20. f[1] \in S
  BY <1>18, <1>19 DEF Enumerates
<1> QED BY <1>2, <1>5, <1>17, <1>20

(* The totals of the rows that were written. *)
LEMMA TotalsWritten ==
  ASSUME NEW W, NEW L, NEW q, IsWritten(W, L, q), "totalConsumption" \in Columns(q),
         NEW n, n = Len(L), \A i \in 1..n : "totalConsumption" \in DOMAIN L[i],
         NEW k, k = [i \in DOMAIN W |-> W[i].totalConsumption]
  PROVE  n \in Nat /\ DOMAIN k = 1..n /\ \A i \in 1..n : k[i] = L[i].totalConsumption
<1>1. /\ n \in Nat /\ DOMAIN W = 1..n
      /\ \A i \in 1..n : W[i] = FilterFields(L[i], Columns(q))
  BY DEF IsWritten, IsRows
<1>2. \A i \in 1..n : FilterFields(L[i], Columns(q)).totalConsumption = L[i].totalConsumption
  BY FieldIsKept
<1>3. \A i \in 1..n : W[i].totalConsumption = L[i].totalConsumption
  BY <1>1, <1>2
<1> QED BY <1>1, <1>3

(* The totals of the weeks of a file add up to that of the store. *)
LEMMA WeeklyTotals ==
  ASSUME NEW A, Readable(A), NEW W, NEW q, IsWritten(W, ComputeWeeklySummaries(A), q),
         "totalConsumption" \in Columns(q)
  PROVE  SumFunction([i \in DOMAIN W |-> W[i].totalConsumption]) = SumOf(A)
<1>1. PICK L, k : L = ComputeWeeklySummaries(A) /\ k = [i \in DOMAIN W |-> W[i].totalConsumption]
  OBVIOUS
<1>2. PICK n : n = Len(L)
  OBVIOUS
<1>3. n = Cardinality(KeysOf(A, "week"))
  BY <1>1, <1>2, WeeklyRows
<1>4. PICK keys :
        /\ InOrder(keys, KeysOf(A, "week"))
        /\ \A i \in 1..n : /\ "totalConsumption" \in DOMAIN L[i]
                           /\ L[i].totalConsumption = SumOf(BucketOf(A, "week", keys[i]))
  <2>1. \E keys : /\ InOrder(keys, KeysOf(A, "week"))
              /\ \A i \in 1..Len(L) :
                   /\ {"weekStart", "weekEnd", "totalConsumption", "peakDay"} \subseteq DOMAIN L[i]
                   /\ L[i].weekStart = keys[i] /\ L[i].weekEnd = keys[i] + StartOfDay(6)
                   /\ L[i].totalConsumption = SumOf(BucketOf(A, "week", keys[i]))
                   /\ L[i].peakDay = PeakDay(BucketOf(A, "week", keys[i]))
    BY <1>1, WeeklyRows
  <2> QED BY <1>2, <2>1
<1>5. DOMAIN k = 1..n /\ \A i \in 1..n : k[i] = L[i].totalConsumption
  BY <1>1, <1>2, <1>4, TotalsWritten
<1>6. \A i \in 1..n : k[i] = SumOf(BucketOf(A, "week", keys[i]))
  BY <1>4, <1>5
<1>7. "week" \in Granularities
  BY DEF Granularities
<1>8. AreTotals(k, A, "week", keys)
  BY <1>3, <1>5, <1>6 DEF AreTotals
<1>9. SumFunction(k) = SumOf(A)
  BY <1>4, <1>7, <1>8, TotalOfBuckets
<1> QED BY <1>1, <1>9

(* The totals of the months of a file add up to that of the store. *)
LEMMA MonthlyTotals ==
  ASSUME NEW A, Readable(A), NEW W, NEW q, IsWritten(W, ComputeMonthlySummaries(A), q),
         "totalConsumption" \in Columns(q)
  PROVE  SumFunction([i \in DOMAIN W |-> W[i].totalConsumption]) = SumOf(A)
<1>1. PICK L, k : L = ComputeMonthlySummaries(A) /\ k = [i \in DOMAIN W |-> W[i].totalConsumption]
  OBVIOUS
<1>2. PICK n : n = Len(L)
  OBVIOUS
<1>3. n = Cardinality(KeysOf(A, "month"))
  BY <1>1, <1>2, MonthlyRows
<1>4. PICK keys :
        /\ InOrder(keys, KeysOf(A, "month"))
        /\ \A i \in 1..n : /\ "totalConsumption" \in DOMAIN L[i]
                           /\ L[i].totalConsumption = SumOf(BucketOf(A, "month", keys[i]))
  BY <1>1, <1>2, MonthlyRows
<1>5. DOMAIN k = 1..n /\ \A i \in 1..n : k[i] = L[i].totalConsumption
  BY <1>1, <1>2, <1>4, TotalsWritten
<1>6. \A i \in 1..n : k[i] = SumOf(BucketOf(A, "month", keys[i]))
  BY <1>4, <1>5
<1>7. "month" \in Granularities
  BY DEF Granularities
<1>8. AreTotals(k, A, "month", keys)
  BY <1>3, <1>5, <1>6 DEF AreTotals
<1>9. SumFunction(k) = SumOf(A)
  BY <1>4, <1>7, <1>8, TotalOfBuckets
<1> QED BY <1>1, <1>9

(* The totals of the days of a file add up to that of the days asked for. *)
LEMMA DailyTotals ==
  ASSUME NEW A, Readable(A), NEW q, {q.startDate, q.endDate} \subseteq Instants \cup {Null},
         NEW W, IsWritten(W, ComputeDailySummaries(A, q), q), "totalConsumption" \in Columns(q)
  PROVE  SumFunction([i \in DOMAIN W |-> W[i].totalConsumption]) = SumOf(InDays(A, q))
<1>1. PICK L, k :
        L = ComputeDailySummaries(A, q) /\ k = [i \in DOMAIN W |-> W[i].totalConsumption]
  OBVIOUS
<1>2. PICK keys, rows, K :
        /\ InOrder(keys, KeysOf(A, "day")) /\ IsRows(rows)
        /\ Len(rows) = Cardinality(KeysOf(A, "day"))
        /\ \A i \in 1..Len(rows) :
             /\ "totalConsumption" \in DOMAIN rows[i]
             /\ rows[i].totalConsumption = SumOf(BucketOf(A, "day", keys[i]))
        /\ K = {i \in 1..Len(rows) : IsDayOf(q, keys[i])} /\ Keeps(L, rows, K)
        /\ Len(L) = Cardinality(K)
  BY <1>1, DailyRows
<1>3. PICK n, m \in Nat : n = Cardinality(K) /\ m = Len(rows)
  BY <1>2 DEF IsRows, Keeps, InOrder
<1>4. PICK kept : InOrder(kept, K) /\ \A i \in 1..n : L[i] = rows[kept[i]]
  BY <1>2, <1>3 DEF Keeps
<1>5. /\ n \in Nat /\ \A i \in 1..n : kept[i] \in K
      /\ \A j \in K : \E i \in 1..n : kept[i] = j
  BY <1>3, <1>4 DEF InOrder
<1>6. \A i, j \in 1..n : i # j => kept[i] # kept[j]
  <2>1. K \in SUBSET Int
    BY <1>2, <1>3
  <2> QED BY <1>3, <1>4, <2>1, InOrderIsDistinct
<1>7. \A i, j \in 1..m : i # j => keys[i] # keys[j]
  <2>1. KeysOf(A, "day") \in SUBSET Int
    BY KeysAreFinite DEF Granularities
  <2> QED BY <1>2, <1>3, <2>1, InOrderIsDistinct
<1>8. /\ K = {i \in 1..m : IsDayOf(q, keys[i])}
      /\ \A key \in KeysOf(A, "day") : \E i \in 1..m : keys[i] = key
  BY <1>2, <1>3 DEF InOrder
<1>9. PICK X : X = [i \in 1..n |-> BucketOf(A, "day", keys[kept[i]])]
  OBVIOUS
<1>10. ASSUME NEW i \in 1..n
       PROVE  /\ "totalConsumption" \in DOMAIN L[i] /\ X[i] \in SUBSET A
              /\ L[i].totalConsumption = SumOf(X[i])
  <2>1. kept[i] \in 1..m /\ X[i] = BucketOf(A, "day", keys[kept[i]])
    BY <1>5, <1>8, <1>9
  <2>2. L[i] = rows[kept[i]]
    BY <1>4
  <2>3. /\ "totalConsumption" \in DOMAIN rows[kept[i]]
        /\ rows[kept[i]].totalConsumption = SumOf(BucketOf(A, "day", keys[kept[i]]))
    BY <1>2, <1>3, <2>1
  <2>4. X[i] \in SUBSET A
    BY <2>1 DEF BucketOf
  <2> QED BY <2>1, <2>2, <2>3, <2>4
<1>11. ASSUME NEW i \in 1..n, NEW j \in 1..n, i # j PROVE X[i] \cap X[j] = {}
  <2>1. kept[i] \in 1..m /\ kept[j] \in 1..m /\ kept[i] # kept[j]
    BY <1>5, <1>6, <1>8, <1>11
  <2>2. keys[kept[i]] # keys[kept[j]]
    BY <1>7, <2>1
  <2> QED BY <1>9, <2>2 DEF BucketOf
<1>12. DOMAIN k = 1..n /\ \A i \in 1..n : k[i] = L[i].totalConsumption
  <2>1. n = Len(L) /\ \A i \in 1..n : "totalConsumption" \in DOMAIN L[i]
    BY <1>2, <1>3, <1>10
  <2> QED BY <1>1, <2>1, TotalsWritten
<1>13. Union(X, 1..n) = InDays(A, q)
  <2>1. ASSUME NEW r \in A, NEW i \in 1..n, r \in X[i] PROVE r \in InDays(A, q)
    <3>1. BucketKey(r.time, "day") = keys[kept[i]] /\ IsDayOf(q, keys[kept[i]])
      BY <1>5, <1>8, <1>9, <2>1 DEF BucketOf
    <3>2. IsDayOf(q, BucketKey(r.time, "day"))
      BY <3>1
    <3> QED BY <3>2, DaysOfRequest
  <2>2. ASSUME NEW r \in InDays(A, q) PROVE \E i \in 1..n : r \in X[i]
    <3>1. r \in A
      BY DEF InDays
    <3>2. IsDayOf(q, BucketKey(r.time, "day"))
      BY <3>1, DaysOfRequest
    <3>3. BucketKey(r.time, "day") \in KeysOf(A, "day")
      BY <3>1 DEF KeysOf
    <3>4. PICK j \in 1..m : keys[j] = BucketKey(r.time, "day")
      BY <1>8, <3>3
    <3>5. PICK i \in 1..n : kept[i] = j
      BY <1>5, <1>8, <3>2, <3>4
    <3> QED BY <1>9, <3>1, <3>4, <3>5 DEF BucketOf
  <2>3. \A r \in InDays(A, q) : r \in A
    BY DEF InDays
  <2> QED BY <1>10, <2>1, <2>2, <2>3 DEF Union
<1>14. \A i \in 1..n : k[i] = SumOf(X[i])
  BY <1>10, <1>12
<1>15. SumFunction(k) = SumOf(Union(X, 1..n))
  BY <1>5, <1>10, <1>11, <1>12, <1>14, TotalOfParts
<1> QED BY <1>1, <1>13, <1>15

(* The peak day of a week is within it. *)
LEMMA WeeklyPeaks ==
  ASSUME NEW A, Readable(A), NEW W, NEW q, IsWritten(W, ComputeWeeklySummaries(A), q),
         {"weekStart", "weekEnd", "peakDay"} \subseteq Columns(q), NEW i \in DOMAIN W
  PROVE  W[i].peakDay \in W[i].weekStart..W[i].weekEnd
<1>1. PICK L : L = ComputeWeeklySummaries(A)
  OBVIOUS
<1>2. PICK n : n = Len(L)
  OBVIOUS
<1>3. PICK keys :
        /\ n = Cardinality(KeysOf(A, "week")) /\ InOrder(keys, KeysOf(A, "week"))
        /\ \A j \in 1..n :
             /\ {"weekStart", "weekEnd", "totalConsumption", "peakDay"} \subseteq DOMAIN L[j]
             /\ L[j].weekStart = keys[j] /\ L[j].weekEnd = keys[j] + StartOfDay(6)
             /\ L[j].totalConsumption = SumOf(BucketOf(A, "week", keys[j]))
             /\ L[j].peakDay = PeakDay(BucketOf(A, "week", keys[j]))
  BY <1>1, <1>2, WeeklyRows
<1>4. i \in 1..n /\ W[i] = FilterFields(L[i], Columns(q))
  BY <1>1, <1>2 DEF IsWritten, IsRows
<1>5. /\ W[i].peakDay = L[i].peakDay /\ W[i].weekStart = L[i].weekStart
      /\ W[i].weekEnd = L[i].weekEnd
  <2>1. {"weekStart", "weekEnd", "peakDay"} \subseteq DOMAIN L[i]
    BY <1>3, <1>4
  <2>2. \A f \in {"weekStart", "weekEnd", "peakDay"} :
          FilterFields(L[i], Columns(q))[f] = L[i][f]
    BY <2>1, FieldIsKept
  <2> QED BY <1>4, <2>2
<1>6. PICK key, R : key = keys[i] /\ R = BucketOf(A, "week", key)
  OBVIOUS
<1>7. key \in KeysOf(A, "week")
  BY <1>3, <1>4, <1>6 DEF InOrder
<1>8. R \in SUBSET A /\ R # {}
  BY <1>6, <1>7 DEF BucketOf, KeysOf
<1>9. PeakDay(R) \in DaysOf(R)
  BY <1>8, PeakDayIsDay
<1>10. PICK r \in R : PeakDay(R) = BucketKey(r.time, "day")
  BY <1>9 DEF DaysOf
<1>11. r \in A /\ BucketKey(r.time, "week") = key
  BY <1>6 DEF BucketOf
<1>12. r.time \in Int
  BY <1>11, InstantsAreTimes DEF Readable
<1>13. PeakDay(R) \in key..(key + StartOfDay(6))
  BY <1>10, <1>11, <1>12, TimesAreInTheirWeek
<1>14. L[i].peakDay = PeakDay(R) /\ L[i].weekStart = key /\ L[i].weekEnd = key + StartOfDay(6)
  BY <1>3, <1>4, <1>6
<1> QED BY <1>5, <1>13, <1>14

(* The loop of generateBucketKeys() ends. *)
LEMMA GeneratedAreFinite ==
  ASSUME NEW from \in Int, NEW to \in Int, NEW g \in Granularities
  PROVE  IsFiniteSet(GenerateBucketKeys(from, to, g))
<1>0. PICK last \in Int : last = EndOfDay(to)
  BY EndOfDayOfTime
<1>1. PICK V : V = Visited(from, to, g)
  OBVIOUS
<1>2. V \subseteq from..last
  <2>1. CASE g \in {"hour", "day", "week"}
    <3>1. V = {t \in from..last : (t - from) % StepOf(g) = 0}
      BY <1>0, <1>1, <2>1, VisitedBySteps
    <3> QED BY <3>1
  <2>2. CASE g = "month"
    <3>1. \E f : V = {f[n] : n \in 0..Months} \cap from..last
      BY <1>0, <1>1, <2>2, VisitedByMonths
    <3> QED BY <3>1
  <2> QED BY <2>1, <2>2 DEF Granularities
<1>3. IsFiniteSet(from..last)
  BY FS_Interval
<1>4. IsFiniteSet(V)
  BY <1>2, <1>3, FS_Subset
<1>5. PICK f : f = [t \in V |-> BucketKey(t, g)]
  OBVIOUS
<1>6. f \in Surjection(V, GenerateBucketKeys(from, to, g))
  BY <1>1, <1>5 DEF Surjection, GenerateBucketKeys
<1> QED BY <1>4, <1>6, FS_Surjection

(* A query selects. *)
LEMMA SomeMatch ==
  ASSUME NEW A, NEW q
  PROVE  Matching(A, q) \subseteq A
BY DEF Matching

(* A bucket of an answer. *)
LEMMA DataOfBucket ==
  ASSUME NEW A, NEW q, NEW g, NEW type, NEW key \in DOMAIN AggregateReadings(A, q, g, type)
  PROVE  /\ AggregateReadings(A, q, g, type)[key].count
              = Cardinality(BucketOf(Matching(A, q), g, key))
         /\ AggregateReadings(A, q, g, type)[key].value
              = AggregateValues(Values(BucketOf(Matching(A, q), g, key)), type)
BY DEF AggregateReadings, BucketOf

(* The buckets of a period hold each of its readings once. *)
LEMMA BucketsAddUp ==
  ASSUME NEW A, Readable(A), NEW q, q.startDate \in Int, q.endDate \in Int,
         NEW g \in Granularities, NEW type,
         NEW data, data = AggregateReadings(A, q, g, type)
  PROVE  SumFunction([key \in DOMAIN data |-> data[key].count]) = Cardinality(Matching(A, q))
<1>1. PICK R, I : R = Matching(A, q) /\ I = DOMAIN data
  OBVIOUS
<1>2. Readable(R) /\ IsFiniteSet(R)
  <2>1. R \subseteq A
    BY <1>1, SomeMatch
  <2> QED BY <2>1, SomeAreReadable DEF Readable
<1>3. I = KeysOf(R, g) \cup GenerateBucketKeys(q.startDate, q.endDate, g)
  BY <1>1, SlotsOfData
<1>4. IsFiniteSet(I)
  <2>1. IsFiniteSet(KeysOf(R, g)) /\ IsFiniteSet(GenerateBucketKeys(q.startDate, q.endDate, g))
    BY <1>2, KeysAreFinite, GeneratedAreFinite
  <2> QED BY <1>3, <2>1, FS_Union
<1>5. PICK X, k : /\ X = [key \in I |-> BucketOf(R, g, key)]
                  /\ k = [key \in I |-> data[key].count]
  OBVIOUS
<1>6. \A key \in I : X[key] = BucketOf(R, g, key) /\ k[key] = data[key].count
  BY <1>5
<1>7. DOMAIN k = I
  BY <1>5
<1>8. \A key \in I : X[key] \in SUBSET R /\ k[key] = Cardinality(X[key])
  <2> SUFFICES ASSUME NEW key \in I PROVE X[key] \in SUBSET R /\ k[key] = Cardinality(X[key])
    OBVIOUS
  <2>1. data[key].count = Cardinality(BucketOf(R, g, key))
    BY <1>1, DataOfBucket
  <2>2. BucketOf(R, g, key) \in SUBSET R
    BY DEF BucketOf
  <2> QED BY <1>6, <2>1, <2>2
<1>9. \A i, j \in I : i # j => X[i] \cap X[j] = {}
  BY <1>6 DEF BucketOf
<1>10. Union(X, I) = R
  <2>1. ASSUME NEW r \in R PROVE \E key \in I : r \in X[key]
    <3>1. BucketKey(r.time, g) \in I
      BY <1>3 DEF KeysOf
    <3> QED BY <1>6, <3>1 DEF BucketOf
  <2> QED BY <1>8, <2>1 DEF Union
<1>11. SumFunctionOnSet(k, I) = Cardinality(Union(X, I))
  BY <1>2, <1>4, <1>8, <1>9, CountOfParts
<1>12. SumFunction(k) = Cardinality(R)
  BY <1>7, <1>10, <1>11 DEF SumFunction
<1> QED BY <1>1, <1>5, <1>12

(* A reading is in the week of its bucket. *)
LEMMA WeeksOfData ==
  ASSUME NEW A, Readable(A), NEW q, NEW type,
         NEW data, data = AggregateReadings(A, q, "week", type), NEW r \in Matching(A, q)
  PROVE  \E key \in DOMAIN data : r.time - key \in 0..(7 * HoursInDay - 1)
<1>1. PICK key : key = BucketKey(r.time, "week")
  OBVIOUS
<1>2. key \in DOMAIN data
  <2>1. key \in KeysOf(Matching(A, q), "week")
    BY <1>1 DEF KeysOf
  <2>2. DOMAIN data = KeysOf(Matching(A, q), "week")
                        \cup GenerateBucketKeys(q.startDate, q.endDate, "week")
    BY SlotsOfData, Zenon
  <2> QED BY <2>1, <2>2
<1>3. r.time \in Int
  <2>1. r \in A
    BY SomeMatch
  <2> QED BY <2>1, InstantsAreTimes DEF Readable
<1> QED BY <1>1, <1>2, <1>3, TimesAreInTheirWeek

-----------------------------------------------------------------------------
(* Values between a least and a greatest *)

LEMMA ExtremesExist ==
  ASSUME NEW S \in SUBSET Int, IsFiniteSet(S), S # {}
  PROVE  /\ Min(S) \in S /\ Max(S) \in S
         /\ \A x \in S : Min(S) <= x /\ x <= Max(S)
<1>1. PICK f : InOrder(f, S)
  BY OrderedInOrder, Zenon
<1>2. PICK n \in Nat : n = Cardinality(S)
  BY <1>1 DEF InOrder
<1>3. /\ \A i \in 1..n : f[i] \in S
      /\ \A x \in S : \E i \in 1..n : f[i] = x
      /\ \A i, j \in 1..n : i < j => f[i] < f[j]
  BY <1>1, <1>2 DEF InOrder
<1>4. 1 \in 1..n /\ n \in 1..n
  <2>1. \E i \in 1..n : TRUE
    BY <1>3
  <2> QED BY <2>1
<1>5. ASSUME NEW x \in S PROVE f[1] <= x /\ x <= f[n]
  <2>1. PICK i \in 1..n : f[i] = x
    BY <1>3
  <2>2. (1 < i => f[1] < f[i]) /\ (i < n => f[i] < f[n])
    BY <1>3, <1>4
  <2>3. f[1] \in Int /\ f[i] \in Int /\ f[n] \in Int
    BY <1>3, <1>4
  <2> QED BY <1>4, <2>1, <2>2, <2>3
<1>6. f[1] \in S /\ f[n] \in S
  BY <1>3, <1>4
<1>7. Min(S) \in S /\ \A x \in S : Min(S) <= x
  BY <1>5, <1>6 DEF Min
<1>8. Max(S) \in S /\ \A x \in S : Max(S) >= x
  BY <1>5, <1>6 DEF Max
<1> QED BY <1>7, <1>8

(* Multiplication keeps an order. *)
LEMMA Scaled ==
  ASSUME NEW k \in Nat, NEW x \in Int, NEW y \in Int, x <= y
  PROVE  k * x \in Int /\ k * y \in Int /\ k * x <= k * y
OBVIOUS

(* A quotient is between the quotients of its bounds. *)
LEMMA Quotients ==
  ASSUME NEW n \in Nat, n > 0, NEW p \in Int, NEW q \in Int, NEW x \in Int, p * n <= x, x <= q * n
  PROVE  x \div n \in p..q
<1>1. PICK d \in Int, r \in Int : d = x \div n /\ r = x % n
  OBVIOUS
<1>2. x = n * d + r /\ 0 <= r /\ r < n
  BY <1>1
<1>3. p <= d
  <2> SUFFICES ASSUME d + 1 <= p PROVE FALSE
    BY <1>1
  <2>1. n * (d + 1) <= n * p
    BY Scaled
  <2>2. n * (d + 1) = n * d + n /\ n * p = p * n
    OBVIOUS
  <2> QED BY <1>2, <2>1, <2>2
<1>4. d <= q
  <2> SUFFICES ASSUME q + 1 <= d PROVE FALSE
    BY <1>1
  <2>1. n * (q + 1) <= n * d
    BY Scaled
  <2>2. n * (q + 1) = n * q + n /\ n * q = q * n
    OBVIOUS
  <2> QED BY <1>2, <2>1, <2>2
<1> QED BY <1>1, <1>3, <1>4

(* What lies between two values is between their bounds. *)
LEMMA Interpolated ==
  ASSUME NEW u \in Nat, NEW m \in 0..99, NEW a \in Int, NEW b \in Int,
         NEW x \in a..b, NEW y \in a..b
  PROVE  (100 * u) * x + u * m * (y - x) \in ((100 * u) * a)..((100 * u) * b)
<1>1. PICK w \in Nat : w = 100 - m
  OBVIOUS
<1>2. w * a <= w * x /\ w * x <= w * b /\ m * a <= m * y /\ m * y <= m * b
  BY Scaled
<1>3. w * a + m * a = 100 * a /\ w * b + m * b = 100 * b
  BY <1>1
<1>4. PICK c \in Int : c = w * x + m * y
  OBVIOUS
<1>5. 100 * a <= c /\ c <= 100 * b
  BY <1>2, <1>3, <1>4
<1>6. u * (100 * a) <= u * c /\ u * c <= u * (100 * b)
  BY <1>5, Scaled
<1>7. u * (100 * a) = (100 * u) * a /\ u * (100 * b) = (100 * u) * b
  OBVIOUS
<1>8. (100 * u) * x + u * m * (y - x) = u * c
  <2>1. c = 100 * x + m * (y - x)
    BY <1>1, <1>4
  <2>2. PICK v \in Int : v = m * (y - x)
    OBVIOUS
  <2>3. u * (100 * x + v) = u * (100 * x) + u * v
    OBVIOUS
  <2>4. u * (100 * x) = (100 * u) * x /\ u * v = u * m * (y - x)
    BY <2>2
  <2> QED BY <2>1, <2>2, <2>3, <2>4
<1>9. (100 * u) * x + u * m * (y - x) \in Int
  OBVIOUS
<1> QED BY <1>6, <1>7, <1>8, <1>9

(* Scale counts whole hundredths. *)
LEMMA ScaleIsHundreds == \E u \in Nat : Scale = 100 * u /\ Scale \div 100 = u
<1>1. Scale \in Nat /\ Scale % 100 = 0
  BY CalendarAssumption DEF CalendarAssumption
<1> QED BY <1>1

(* The n values of f, which are between a and b. *)
Within(f, n, a, b) ==
  /\ n \in Nat /\ n > 0 /\ f = [i \in 1..n |-> f[i]]
  /\ a \in Int /\ b \in Int /\ \A i \in 1..n : f[i] \in a..b

(* Sorting keeps values between their bounds. *)
LEMMA SortedIsWithin ==
  ASSUME NEW f, NEW n, NEW a, NEW b, Within(f, n, a, b)
  PROVE  Within(Sorted(f), n, a, b)
<1>1. /\ n \in Nat /\ n > 0 /\ DOMAIN f = 1..n
      /\ a \in Int /\ b \in Int /\ \A i \in 1..n : f[i] \in a..b
  BY DEF Within
<1>2. PICK S : S = 1..n
  OBVIOUS
<1>3. PICK before :
        before = [x \in S |-> {y \in S : f[y] < f[x] \/ (f[y] = f[x] /\ y < x)}]
  OBVIOUS
<1>4. PICK id : id = [x \in S |-> x]
  OBVIOUS
<1>5. ByBoth(S, f, id, before)
  <2>1. before \in [S -> SUBSET S]
    BY <1>3
  <2>2. \A x \in S : f[x] \in Int /\ id[x] = x /\ x \in Int
    BY <1>1, <1>2, <1>4
  <2>3. \A x, y \in S : y \in before[x] <=> f[y] < f[x] \/ (f[y] = f[x] /\ y < x)
    BY <1>3
  <2> QED BY <2>1, <2>2, <2>3 DEF ByBoth
<1>6. IsFiniteSet(S) /\ Cardinality(S) = n
  BY <1>1, <1>2, FS_Interval
<1>7. PICK least : least = Enumerated(S, before)
  OBVIOUS
<1>8. Enumerates(least, S, before)
  BY <1>5, <1>6, <1>7, ByBothIsOrder, EnumeratedEnumerates
<1>9. DOMAIN least = 1..n /\ \A i \in 1..n : least[i] \in 1..n
  BY <1>2, <1>6, <1>8 DEF Enumerates
<1>10. Sorted(f) = [i \in DOMAIN least |-> f[least[i]]]
  <2>1. DOMAIN f = S
    BY <1>1, <1>2
  <2> QED BY <1>3, <1>7, <2>1, Zenon DEF Sorted, Ordered
<1>11. /\ Sorted(f) = [i \in 1..n |-> Sorted(f)[i]]
       /\ \A i \in 1..n : Sorted(f)[i] \in a..b
  BY <1>1, <1>9, <1>10
<1> QED BY <1>1, <1>11 DEF Within

IsIndex(index, p, n) == n \in Nat /\ n > 0 /\ p \in {50, 95} /\ index = p * (n - 1)

(* percentile() reads no place that is not there. *)
LEMMA PlacesOfPercentile ==
  ASSUME NEW n, NEW p, NEW index, IsIndex(index, p, n)
  PROVE  /\ index \in Nat
         /\ index \div 100 + 1 \in 1..n /\ index % 100 \in 0..99
         /\ index % 100 # 0 => index \div 100 + 2 \in 1..n
<1>0. n \in Nat /\ n > 0 /\ p \in {50, 95} /\ index = p * (n - 1)
  BY DEF IsIndex
<1>1. PICK j \in Nat : j = n - 1
  BY <1>0
<1>2. index \in Nat /\ index <= 95 * j
  <2>1. CASE p = 50
    BY <1>0, <1>1, <2>1
  <2>2. CASE p = 95
    BY <1>0, <1>1, <2>2
  <2> QED BY <1>0, <2>1, <2>2
<1>3. PICK k \in Nat, m \in 0..99 : k = index \div 100 /\ m = index % 100 /\ index = 100 * k + m
  BY <1>2
<1>4. k <= j /\ (m # 0 => k < j)
  BY <1>2, <1>3
<1> QED BY <1>0, <1>1, <1>2, <1>3, <1>4

(* A percentile is between the bounds of the values. *)
LEMMA PercentileIsWithin ==
  ASSUME NEW f, NEW n, NEW a, NEW b, Within(f, n, a, b), NEW p \in {50, 95}
  PROVE  Percentile(f, p) \in (Scale * a)..(Scale * b)
<1>1. n \in Nat /\ n > 0 /\ a \in Int /\ b \in Int /\ \A i \in 1..n : f[i] \in a..b
  BY DEF Within
<1>2. Len(f) = n
  BY DEF Within
<1>3. PICK index \in Nat, k \in Int, m \in 0..99 :
        /\ index = p * (n - 1) /\ k = index \div 100 /\ m = index % 100
        /\ k + 1 \in 1..n /\ (m # 0 => k + 2 \in 1..n)
  <2>1. PICK index : index = p * (n - 1)
    OBVIOUS
  <2>2. /\ index \in Nat
        /\ index \div 100 + 1 \in 1..n /\ index % 100 \in 0..99
        /\ index % 100 # 0 => index \div 100 + 2 \in 1..n
    <3>1. IsIndex(index, p, n)
      BY <1>1, <2>1 DEF IsIndex
    <3> QED BY <3>1, PlacesOfPercentile
  <2>3. index \div 100 \in Int
    BY <2>2
  <2> QED BY <2>1, <2>2, <2>3
<1>4. PICK u \in Nat : Scale = 100 * u /\ Scale \div 100 = u
  BY ScaleIsHundreds
<1>5. Percentile(f, p) = IF m = 0 THEN Scale * f[k + 1]
                         ELSE Scale * f[k + 1] + u * m * (f[k + 2] - f[k + 1])
  BY <1>2, <1>3, <1>4, Zenon DEF Percentile
<1>6. CASE m = 0
  <2>1. PICK x \in a..b : x = f[k + 1]
    BY <1>1, <1>3
  <2>2. Scale \in Nat /\ x \in Int /\ a <= x /\ x <= b
    BY <1>1, <1>4
  <2>3. Scale * a <= Scale * x /\ Scale * x <= Scale * b /\ Scale * x \in Int
    BY <1>1, <2>2, Scaled
  <2>4. Percentile(f, p) = Scale * x
    BY <1>5, <1>6, <2>1
  <2>5. Scale * a \in Int /\ Scale * b \in Int
    BY <1>1, <2>2
  <2> QED BY <2>3, <2>4, <2>5
<1>7. CASE m # 0
  <2>1. PICK x \in a..b, y \in a..b : x = f[k + 1] /\ y = f[k + 2]
    BY <1>1, <1>3, <1>7
  <2>2. a \in Int /\ b \in Int
    BY <1>1
  <2>3. (100 * u) * x + u * m * (y - x) \in ((100 * u) * a)..((100 * u) * b)
    BY <2>2, Interpolated
  <2>4. Percentile(f, p) = Scale * x + u * m * (y - x)
    BY <1>5, <1>7, <2>1
  <2> QED BY <1>4, <2>3, <2>4
<1> QED BY <1>6, <1>7

(* Such values are a sequence, and not an empty one. *)
LEMMA WithinIsRow ==
  ASSUME NEW f, NEW n, NEW a, NEW b, Within(f, n, a, b)
  PROVE  /\ Len(f) = n /\ f # << >> /\ ToSet(f) = {f[i] : i \in 1..n}
<1>1. n \in Nat /\ n > 0 /\ DOMAIN f = 1..n
  BY DEF Within
<1>2. Len(f) = n
  BY DEF Within
<1>3. ToSet(f) = {f[i] : i \in DOMAIN f}
  BY DEF ToSet
<1> QED BY <1>1, <1>2, <1>3

(* An average is between the bounds of the values. *)
LEMMA AverageIsWithin ==
  ASSUME NEW f, NEW n, NEW a, NEW b, Within(f, n, a, b)
  PROVE  (Scale * Total(f)) \div n \in (Scale * a)..(Scale * b)
<1>1. n \in Nat /\ n > 0 /\ a \in Int /\ b \in Int /\ DOMAIN f = 1..n
  BY DEF Within
<1>2. \A i \in 1..n : f[i] \in a..b
  BY DEF Within
<1>3. IsFiniteSet(1..n) /\ Cardinality(1..n) = n
  BY <1>1, FS_Interval
<1>4. SumFunctionOnSet(f, 1..n) \in (Cardinality(1..n) * a)..(Cardinality(1..n) * b)
  BY <1>1, <1>2, <1>3, SumIsBetween
<1>5. Total(f) = SumFunctionOnSet(f, 1..n)
  BY <1>1 DEF Total, SumFunction
<1>6. PICK s \in Nat : s = Scale
  BY ScaleIsHundreds
<1>7. PICK t \in Int : t = Total(f) /\ n * a <= t /\ t <= n * b
  <2>1. n * a \in Int /\ n * b \in Int
    BY <1>1
  <2> QED BY <1>3, <1>4, <1>5, <2>1
<1>8. s * (n * a) <= s * t /\ s * t <= s * (n * b)
  <2>1. n * a \in Int /\ n * b \in Int
    BY <1>1
  <2> QED BY <1>7, <2>1, Scaled
<1>9. (s * a) * n = s * (n * a) /\ (s * b) * n = s * (n * b) /\ s * a \in Int /\ s * b \in Int
  BY <1>1
<1>10. (s * t) \div n \in (s * a)..(s * b)
  BY <1>1, <1>8, <1>9, Quotients
<1> QED BY <1>6, <1>7, <1>10

(* So are the least and the greatest of them. *)
LEMMA ExtremesAreWithin ==
  ASSUME NEW f, NEW n, NEW a, NEW b, Within(f, n, a, b), NEW S, S = ToSet(f)
  PROVE  /\ Scale * Min(S) \in (Scale * a)..(Scale * b)
         /\ Scale * Max(S) \in (Scale * a)..(Scale * b)
<1>1. n \in Nat /\ n > 0 /\ a \in Int /\ b \in Int /\ \A i \in 1..n : f[i] \in a..b
  BY DEF Within
<1>2. S = {f[i] : i \in 1..n}
  BY WithinIsRow
<1>3. S \in SUBSET (a..b) /\ S # {}
  BY <1>1, <1>2
<1>4. IsFiniteSet(S)
  <2>1. IsFiniteSet(a..b)
    BY <1>1, FS_Interval
  <2> QED BY <1>3, <2>1, FS_Subset
<1>5. Min(S) \in S /\ Max(S) \in S
  <2>1. S \in SUBSET Int
    BY <1>1, <1>3
  <2> QED BY <1>3, <1>4, <2>1, ExtremesExist
<1>6. PICK s \in Nat : s = Scale
  BY ScaleIsHundreds
<1>7. ASSUME NEW x \in a..b PROVE s * x \in (s * a)..(s * b)
  <2>1. s * a <= s * x /\ s * x <= s * b /\ s * x \in Int /\ s * a \in Int /\ s * b \in Int
    BY <1>1, Scaled
  <2> QED BY <2>1
<1>8. Min(S) \in a..b /\ Max(S) \in a..b
  BY <1>3, <1>5
<1> QED BY <1>6, <1>7, <1>8

(* aggregateValues() stays between the bounds of the values. *)
LEMMA AggregateIsWithin ==
  ASSUME NEW f, NEW n, NEW a, NEW b, Within(f, n, a, b),
         NEW type \in {"avg", "min", "max", "p50", "p95"}
  PROVE  AggregateValues(f, type) \in (Scale * a)..(Scale * b)
<1>1. f # << >> /\ Len(f) = n
  BY WithinIsRow
<1>2. CASE type = "avg"
  <2>1. AggregateValues(f, type) = (Scale * Total(f)) \div n
    BY <1>1, <1>2, Zenon DEF AggregateValues
  <2> QED BY <2>1, AverageIsWithin
<1>3. CASE type \in {"min", "max"}
  <2>1. PICK S : S = ToSet(f)
    OBVIOUS
  <2>2. AggregateValues(f, type) = IF type = "min" THEN Scale * Min(S) ELSE Scale * Max(S)
    BY <1>1, <1>3, <2>1 DEF AggregateValues
  <2> QED BY <2>1, <2>2, ExtremesAreWithin
<1>4. CASE type = "p50"
  <2>1. AggregateValues(f, type) = Percentile(Sorted(f), 50)
    BY <1>1, <1>4 DEF AggregateValues
  <2> QED BY <2>1, SortedIsWithin, PercentileIsWithin
<1>5. CASE type = "p95"
  <2>1. AggregateValues(f, type) = Percentile(Sorted(f), 95)
    BY <1>1, <1>5 DEF AggregateValues
  <2> QED BY <2>1, SortedIsWithin, PercentileIsWithin
<1> QED BY <1>2, <1>3, <1>4, <1>5

(* The values of a bucket are between the extremes of the whole range. *)
LEMMA ValuesAreWithin ==
  ASSUME NEW R, Readable(R), NEW B \in SUBSET R, Cardinality(B) > 0,
         NEW vals, vals = {r.value : r \in R}
  PROVE  Within(Values(B), Cardinality(B), Min(vals), Max(vals))
<1>1. Readable(B)
  BY SomeAreReadable
<1>2. PICK rows, n, f : /\ f = Values(B) /\ n = Cardinality(B) /\ InOrderOfIds(rows, B)
                        /\ f = [i \in 1..n |-> rows[i].value]
  BY <1>1, ValuesInOrder
<1>3. n \in Nat /\ \A i \in 1..n : rows[i] \in B
  BY <1>2 DEF InOrderOfIds
<1>4. PICK v : v = [r \in R |-> r.value]
  OBVIOUS
<1>5. \A r \in R : v[r] = r.value /\ v[r] \in vals /\ r.value \in Int
  BY <1>4 DEF Readable
<1>6. vals \in SUBSET Int
  BY <1>5
<1>7. IsFiniteSet(vals)
  <2>1. v \in Surjection(R, vals)
    BY <1>4 DEF Surjection
  <2> QED BY <2>1, FS_Surjection DEF Readable
<1>8. \A i \in 1..n : rows[i].value \in vals
  BY <1>3, <1>5
<1>9. vals # {}
  <2>1. 1 \in 1..n
    BY <1>2, <1>3
  <2> QED BY <1>8, <2>1
<1>10. PICK a \in Int, b \in Int :
         a = Min(vals) /\ b = Max(vals) /\ \A x \in vals : a <= x /\ x <= b
  <2>1. /\ Min(vals) \in vals /\ Max(vals) \in vals
        /\ \A x \in vals : Min(vals) <= x /\ x <= Max(vals)
    BY <1>6, <1>7, <1>9, ExtremesExist
  <2> QED BY <1>6, <2>1
<1>11. \A x \in vals : x \in a..b
  BY <1>6, <1>10
<1>12. \A i \in 1..n : f[i] \in a..b
  BY <1>2, <1>8, <1>11
<1>13. f = [i \in 1..n |-> f[i]] /\ n > 0
  BY <1>2
<1>14. Within(f, n, a, b)
  BY <1>3, <1>10, <1>12, <1>13 DEF Within
<1> QED BY <1>2, <1>10, <1>14

(* What a bucket aggregates is between the least and the greatest value.    *)
LEMMA ValuesOfData ==
  ASSUME NEW A, Readable(A), NEW q, NEW g, NEW type \in {"avg", "min", "max", "p50", "p95"},
         NEW data, data = AggregateReadings(A, q, g, type),
         NEW key \in DOMAIN data, data[key].count > 0,
         NEW vals, vals = {r.value : r \in Matching(A, q)}
  PROVE  data[key].value \in (Scale * Min(vals))..(Scale * Max(vals))
<1>1. PICK R, B : R = Matching(A, q) /\ B = BucketOf(R, g, key)
  OBVIOUS
<1>2. data[key].count = Cardinality(B) /\ data[key].value = AggregateValues(Values(B), type)
  BY <1>1, DataOfBucket
<1>3. Readable(R)
  BY <1>1, SomeMatch, SomeAreReadable
<1>4. B \in SUBSET R
  BY <1>1 DEF BucketOf
<1>5. Within(Values(B), Cardinality(B), Min(vals), Max(vals))
  <2>1. Cardinality(B) > 0
    BY <1>2
  <2> QED BY <1>1, <1>3, <1>4, <2>1, ValuesAreWithin
<1>6. AggregateValues(Values(B), type) \in (Scale * Min(vals))..(Scale * Max(vals))
  BY <1>5, AggregateIsWithin
<1> QED BY <1>2, <1>6

(* getPreviousPeriodDates(): two dates, the last one before the start, and   *)
(* no time between them after the end.                                     *)
PeriodBefore(before, q) ==
  /\ before[1] \in Int /\ before[2] \in Int
  /\ PeriodsAreApart(q) =>
       /\ DayOf(before[2]) < DayOf(q.startDate)
       /\ \A t \in Int : before[1] <= t /\ t <= EndOfDay(before[2]) => t <= EndOfDay(q.endDate)

(* "previous_period": it ends the day before the start. *)
LEMMA PreviousIsBefore ==
  ASSUME NEW q, q.startDate \in Int, q.endDate \in Int, q.compareWith # "year_over_year",
         NEW before, before = PreviousPeriod(q.startDate, q.endDate, q.compareWith)
  PROVE  PeriodBefore(before, q)
<1>1. PICK from \in Int, to \in Int : from = q.startDate /\ to = q.endDate
  OBVIOUS
<1>2. /\ before[1] = StartOfDay(DayOf(from - 1 - (to - from)))
      /\ before[2] = StartOfDay(DayOf(from - 1))
  BY <1>1 DEF PreviousPeriod
<1>3. before[1] \in Int /\ before[2] \in Int
  <2>1. from - 1 - (to - from) \in Int /\ from - 1 \in Int
    OBVIOUS
  <2> QED BY <1>2, <2>1, DayOfTime
<1>4. from % HoursInDay = 0 => DayOf(from - 1) < DayOf(from)
  <2>1. HoursInDay \in Nat /\ HoursInDay > 0
    BY HoursArePositive
  <2>2. from % HoursInDay = 0 => StartOfDay(DayOf(from)) = from
    BY <2>1 DEF StartOfDay, DayOf
  <2>3. DayOf(from) \in Int /\ DayOf(from - 1) \in Int /\ StartOfDay(DayOf(from - 1)) <= from - 1
    BY DayOfTime
  <2>4. DayOf(from - 1) <= DayOf(from)
    BY DaysGrow
  <2>5. DayOf(from - 1) = DayOf(from) => from % HoursInDay # 0
    BY <2>2, <2>3
  <2> QED BY <2>3, <2>4, <2>5
<1>5. DayOf(before[2]) = DayOf(from - 1)
  <2>1. DayOf(from - 1) \in Int
    BY DayOfTime
  <2> QED BY <1>2, <2>1, DayOfStart
<1>6. PeriodsAreApart(q) => from % HoursInDay = 0
  BY <1>1 DEF PeriodsAreApart
<1>7. ASSUME PeriodsAreApart(q), NEW t \in Int, before[1] <= t, t <= EndOfDay(before[2])
      PROVE  t <= EndOfDay(to)
  <2>1. /\ DayOf(t) \in Int /\ DayOf(from) \in Int /\ DayOf(to) \in Int
        /\ DayOf(from - 1) \in Int
    BY DayOfTime
  <2>2. DayOf(t) <= DayOf(from - 1) /\ DayOf(from - 1) < DayOf(from)
    BY <1>3, <1>4, <1>5, <1>6, <1>7, EndOfDayOfTime
  <2>3. CASE from <= to
    <3>1. DayOf(from) <= DayOf(to)
      BY <2>3, DaysGrow
    <3>2. DayOf(t) <= DayOf(to)
      BY <2>1, <2>2, <3>1
    <3> QED BY <3>2, EndOfDayOfTime
  <2>4. CASE to < from
    <3>1. PICK u \in Int : u = from - 1 - (to - from) /\ from <= u
      BY <2>4
    <3>2. DayOf(u) \in Int /\ DayOf(from) <= DayOf(u) /\ DayOf(before[1]) = DayOf(u)
      BY <1>2, <3>1, DayOfTime, DaysGrow, DayOfStart
    <3>3. DayOf(before[1]) <= DayOf(t)
      BY <1>3, <1>7, DaysGrow
    <3> QED BY <2>1, <2>2, <3>2, <3>3
  <2> QED BY <2>3, <2>4
<1> QED BY <1>1, <1>3, <1>4, <1>5, <1>6, <1>7 DEF PeriodBefore

(* A year before an instant of a later year is an instant. *)
LEMMA YearsAreTimes ==
  ASSUME NEW t \in Instants, MonthOf(DayOf(t)) > MonthsInYear
  PROVE  AddMonths(t, -MonthsInYear) \in Int /\ AddMonths(t, -MonthsInYear) <= t
<1>1. t \in Int /\ DayOf(t) \in CalendarDays
  BY InstantsHaveDays, InstantsAreTimes
<1>2. PICK m \in 1..Months : m = MonthOf(DayOf(t))
  BY <1>1, MonthOfDay
<1>3. Months \in Nat /\ MonthsInYear \in Nat /\ MonthsInYear > 0
  BY MonthsHaveLengths, CalendarAssumption DEF CalendarAssumption
<1>4. m \in 1..(Months + 1) /\ m + (-MonthsInYear) \in 1..(Months + 1)
  BY <1>2, <1>3
<1>5. MonthStart[m] \in Int /\ MonthStart[m + (-MonthsInYear)] \in Int
  BY <1>4, MonthsGrow
<1>6. PICK d \in Int : d = MonthStart[m + (-MonthsInYear)] - MonthStart[m] /\ d <= 0
  <2>1. m + (-MonthsInYear) <= m
    BY <1>2, <1>3
  <2>2. MonthStart[m + (-MonthsInYear)] <= MonthStart[m]
    BY <1>4, <2>1, MonthsInOrder
  <2> QED BY <1>5, <2>2
<1>7. AddMonths(t, -MonthsInYear) = t + StartOfDay(d)
  BY <1>2, <1>6 DEF AddMonths
<1>8. PICK s \in Int : s = StartOfDay(d) /\ s <= 0
  <2>1. PICK e \in Nat : e = -d
    BY <1>6
  <2>2. e * HoursInDay \in Nat /\ d * HoursInDay = -(e * HoursInDay)
    BY <1>6, <2>1, HoursArePositive
  <2> QED BY <2>2 DEF StartOfDay
<1>9. t + s \in Int /\ t + s <= t
  BY <1>1, <1>8
<1>10. AddMonths(t, -MonthsInYear) = t + s
  BY <1>7, <1>8, Zenon
<1> QED BY <1>9, <1>10, Zenon

(* "year_over_year": it ends before the start when the range is short       *)
(* enough.                                                                  *)
LEMMA YearIsBefore ==
  ASSUME NEW q, q.startDate \in Instants, q.endDate \in Instants,
         q.compareWith = "year_over_year",
         \A time \in {q.startDate, q.endDate} : MonthOf(DayOf(time)) > MonthsInYear,
         NEW before, before = PreviousPeriod(q.startDate, q.endDate, q.compareWith)
  PROVE  PeriodBefore(before, q)
<1>1. PICK from \in Int, to \in Int : /\ from = AddMonths(q.startDate, -MonthsInYear)
                                      /\ to = AddMonths(q.endDate, -MonthsInYear)
                                      /\ to <= q.endDate
  BY YearsAreTimes
<1>2. before[1] = StartOfDay(DayOf(from)) /\ before[2] = StartOfDay(DayOf(to))
  BY <1>1 DEF PreviousPeriod
<1>3. before[1] \in Int /\ before[2] \in Int /\ DayOf(before[2]) = DayOf(to)
  BY <1>2, DayOfTime, DayOfStart
<1>4. PeriodsAreApart(q) => DayOf(to) < DayOf(q.startDate)
  BY <1>1 DEF PeriodsAreApart
<1>5. ASSUME NEW t \in Int, t <= EndOfDay(before[2])
      PROVE  t <= EndOfDay(q.endDate)
  <2>1. q.endDate \in Int /\ DayOf(q.endDate) \in Int /\ DayOf(t) \in Int /\ DayOf(to) \in Int
    BY InstantsAreTimes, DayOfTime
  <2>2. DayOf(t) <= DayOf(to)
    BY <1>3, <1>5, EndOfDayOfTime
  <2>3. DayOf(to) <= DayOf(q.endDate)
    BY <1>1, <2>1, DaysGrow
  <2>4. DayOf(t) <= DayOf(q.endDate)
    BY <2>1, <2>2, <2>3
  <2> QED BY <2>1, <2>4, EndOfDayOfTime
<1> QED BY <1>3, <1>4, <1>5 DEF PeriodBefore

(* No reading is in a period and in the one before it, or after their end.  *)
LEMMA PeriodsDoNotOverlap ==
  ASSUME NEW A, Readable(A), NEW q, NEW earlier, PeriodsAreApart(q),
         q.startDate \in Int, q.endDate \in Int,
         NEW before, PeriodBefore(before, q),
         earlier.startDate = before[1], earlier.endDate = before[2],
         NEW B, B = {r \in A : r.time <= EndOfDay(q.endDate)}
  PROVE  Cardinality(Matching(A, q)) + Cardinality(Matching(A, earlier)) <= Cardinality(B)
<1>1. PICK M, N : M = Matching(A, q) /\ N = Matching(A, earlier)
  OBVIOUS
<1>2. /\ earlier.startDate \in Int /\ earlier.endDate \in Int
      /\ DayOf(earlier.endDate) < DayOf(q.startDate)
      /\ \A t \in Int : earlier.startDate <= t /\ t <= EndOfDay(earlier.endDate)
                       => t <= EndOfDay(q.endDate)
  BY DEF PeriodBefore
<1>3. Null \notin Int
  BY CalendarAssumption DEF CalendarAssumption
<1>4. ASSUME NEW r \in M
      PROVE  r \in A /\ r.time \in Int /\ q.startDate <= r.time /\ r.time <= EndOfDay(q.endDate)
  <2>1. r \in A /\ q.startDate <= r.time /\ r.time <= EndOfDay(q.endDate)
    BY <1>1, <1>3, <1>4 DEF Matching
  <2> QED BY <2>1, InstantsAreTimes DEF Readable
<1>5. ASSUME NEW r \in N
      PROVE  /\ r \in A /\ r.time \in Int
             /\ earlier.startDate <= r.time /\ r.time <= EndOfDay(earlier.endDate)
  <2>1. r \in A /\ earlier.startDate <= r.time /\ r.time <= EndOfDay(earlier.endDate)
    BY <1>1, <1>2, <1>3, <1>5 DEF Matching
  <2> QED BY <2>1, InstantsAreTimes DEF Readable
<1>6. ASSUME NEW r \in M, r \in N PROVE FALSE
  <2>1. PICK t \in Int : t = r.time
    BY <1>4
  <2>2. DayOf(q.startDate) <= DayOf(t)
    BY <1>4, <2>1, DaysGrow
  <2>3. DayOf(t) <= DayOf(earlier.endDate)
    BY <1>2, <1>5, <1>6, <2>1, EndOfDayOfTime
  <2>4. DayOf(t) \in Int /\ DayOf(q.startDate) \in Int /\ DayOf(earlier.endDate) \in Int
    BY <1>2, DayOfTime
  <2> QED BY <1>2, <2>2, <2>3, <2>4
<1>7. M \cap N = {}
  BY <1>6
<1>8. M \cup N \in SUBSET B
  BY <1>2, <1>4, <1>5
<1>9. IsFiniteSet(B) /\ IsFiniteSet(M) /\ IsFiniteSet(N)
  <2>1. B \in SUBSET A /\ M \in SUBSET B /\ N \in SUBSET B
    BY <1>8
  <2> QED BY <2>1, FS_Subset DEF Readable
<1>10. Cardinality(M \cup N) = Cardinality(M) + Cardinality(N)
  <2>1. /\ IsFiniteSet(M \cup N)
        /\ Cardinality(M \cup N) = Cardinality(M) + Cardinality(N) - Cardinality(M \cap N)
    BY <1>9, FS_Union
  <2>2. Cardinality(M) \in Nat /\ Cardinality(N) \in Nat /\ Cardinality(M \cap N) = 0
    BY <1>7, <1>9, FS_CardinalityType, FS_EmptySet
  <2> QED BY <2>1, <2>2
<1>11. Cardinality(M \cup N) <= Cardinality(B)
  BY <1>8, <1>9, FS_Subset
<1> QED BY <1>1, <1>10, <1>11

MetersOf(R) == {r.meterId : r \in R}
OfMeter(R, m) == {r \in R : r.meterId = m}

AreMeters(meters, R) ==
  /\ DOMAIN meters = MetersOf(R)
  /\ \A m \in MetersOf(R) : meters[m].readings = Cardinality(OfMeter(R, m))

(* The meters of a summary are those with readings in the range. *)
LEMMA MetersOfFleet ==
  ASSUME NEW A, NEW q, NEW type
  PROVE  /\ AreMeters(FleetSummary(A, q, type).meters, Matching(A, q))
         /\ FleetSummary(A, q, type).totalReadings = Cardinality(Matching(A, q))
BY DEF FleetSummary, MetersOf, OfMeter, AreMeters

(* fleetSummary(): each reading of the range is of one of its meters.       *)
LEMMA MetersAddUp ==
  ASSUME NEW A, Readable(A), NEW q, NEW type,
         NEW meters, meters = FleetSummary(A, q, type).meters
  PROVE  SumFunction([m \in DOMAIN meters |-> meters[m].readings])
           = FleetSummary(A, q, type).totalReadings
<1>1. PICK R, I : R = Matching(A, q) /\ I = MetersOf(R)
  OBVIOUS
<1>2. /\ DOMAIN meters = I /\ FleetSummary(A, q, type).totalReadings = Cardinality(R)
      /\ \A m \in I : meters[m].readings = Cardinality(OfMeter(R, m))
  <2>1. /\ AreMeters(meters, R)
        /\ FleetSummary(A, q, type).totalReadings = Cardinality(R)
    BY <1>1, MetersOfFleet
  <2> QED BY <1>1, <2>1 DEF AreMeters
<1>3. IsFiniteSet(R)
  <2>1. R \subseteq A
    BY <1>1, SomeMatch
  <2> QED BY <2>1, SomeAreReadable DEF Readable
<1>4. IsFiniteSet(I)
  <2>1. PICK f : f = [r \in R |-> r.meterId]
    OBVIOUS
  <2>2. f \in Surjection(R, I)
    BY <1>1, <2>1 DEF Surjection, MetersOf
  <2> QED BY <1>3, <2>2, FS_Surjection
<1>5. PICK X, k : X = [m \in I |-> OfMeter(R, m)] /\ k = [m \in I |-> meters[m].readings]
  OBVIOUS
<1>6. DOMAIN k = I /\ \A m \in I : X[m] = OfMeter(R, m) /\ k[m] = Cardinality(X[m])
  BY <1>2, <1>5
<1>7. /\ \A m \in I : X[m] \in SUBSET R
      /\ \A m, n \in I : m # n => X[m] \cap X[n] = {}
  BY <1>6 DEF OfMeter
<1>8. Union(X, I) = R
  <2>1. ASSUME NEW r \in R PROVE \E m \in I : r \in X[m]
    <3>1. r.meterId \in I
      BY <1>1 DEF MetersOf
    <3> QED BY <1>6, <3>1 DEF OfMeter
  <2> QED BY <1>7, <2>1 DEF Union
<1>9. SumFunctionOnSet(k, I) = Cardinality(Union(X, I))
  BY <1>3, <1>4, <1>6, <1>7, CountOfParts
<1>10. SumFunction(k) = Cardinality(R)
  BY <1>6, <1>8, <1>9 DEF SumFunction
<1> QED BY <1>2, <1>5, <1>10

(* The answer to a request for the fleet. *)
LEMMA FleetAnswer ==
  ASSUME ExportsInv, Ended({"fleet"})
  PROVE  /\ Readable(asked.readings)
         /\ body[1] = FleetSummary(asked.readings, request, request.aggregationType)
<1>1. phase = "ended" /\ request.kind = "fleet" /\ ~ Streams(request)
  BY DEF Ended, Streams
<1>2. /\ Readable(asked.readings)
      /\ body = <<Answer(asked.readings, asked.devices, request)>>
  BY <1>1 DEF ExportsInv, AnswerInv
<1>3. Answer(asked.readings, asked.devices, request)
        = FleetSummary(asked.readings, request, request.aggregationType)
  BY <1>1 DEF Answer
<1> QED BY <1>1, <1>2, <1>3

(* The parts of AggregatesAddUp. *)
FleetAddsUp ==
  Ended({"fleet"}) =>
    SumFunction([m \in DOMAIN body[1].meters |-> body[1].meters[m].readings])
      = body[1].totalReadings

(* The last part of AggregatesAddUp. *)
LEMMA FleetFile ==
  ASSUME ExportsInv PROVE FleetAddsUp
<1> SUFFICES ASSUME Ended({"fleet"}) PROVE FleetAddsUp
  BY DEF FleetAddsUp
<1>1. PICK A, F : A = asked.readings /\ F = FleetSummary(A, request, request.aggregationType)
  OBVIOUS
<1>2. Readable(A) /\ body[1] = F
  BY <1>1, FleetAnswer
<1>3. PICK meters : meters = F.meters
  OBVIOUS
<1>4. SumFunction([m \in DOMAIN meters |-> meters[m].readings]) = F.totalReadings
  BY <1>1, <1>2, <1>3, MetersAddUp
<1> QED BY <1>2, <1>3, <1>4, Zenon DEF FleetAddsUp

(* The buckets of an answer. *)
BucketsAreRight(data, total, A, q) ==
  /\ SumFunction([key \in DOMAIN data |-> data[key].count]) = total
  /\ q.granularity = "week" => \A r \in Matching(A, q) :
       \E key \in DOMAIN data : r.time - key \in 0..(7 * HoursInDay - 1)
  /\ q.aggregationType \in {"avg", "min", "max", "p50", "p95"} =>
       \A key \in DOMAIN data : data[key].count > 0 =>
         data[key].value \in (Scale * Min({r.value : r \in Matching(A, q)}))
                               ..(Scale * Max({r.value : r \in Matching(A, q)}))

(* The buckets of one period add up, hold their times and keep to the       *)
(* bounds.                                                                  *)
LEMMA BucketsOfAnswer ==
  ASSUME NEW A, Readable(A), NEW q, q.startDate \in Int, q.endDate \in Int,
         q.granularity \in Granularities,
         NEW data, data = AggregateReadings(A, q, q.granularity, q.aggregationType)
  PROVE  BucketsAreRight(data, Cardinality(Matching(A, q)), A, q)
<1>1. SumFunction([key \in DOMAIN data |-> data[key].count]) = Cardinality(Matching(A, q))
  BY BucketsAddUp
<1>2. ASSUME q.granularity = "week", NEW r \in Matching(A, q)
      PROVE  \E key \in DOMAIN data : r.time - key \in 0..(7 * HoursInDay - 1)
  <2>1. data = AggregateReadings(A, q, "week", q.aggregationType)
    BY <1>2
  <2> QED BY <1>2, <2>1, WeeksOfData
<1>3. ASSUME q.aggregationType \in {"avg", "min", "max", "p50", "p95"},
             NEW key \in DOMAIN data, data[key].count > 0
      PROVE  data[key].value \in (Scale * Min({r.value : r \in Matching(A, q)}))
                                   ..(Scale * Max({r.value : r \in Matching(A, q)}))
  <2>1. PICK vals, type, g : /\ vals = {r.value : r \in Matching(A, q)}
                             /\ type = q.aggregationType /\ g = q.granularity
    OBVIOUS
  <2>2. data[key].value \in (Scale * Min(vals))..(Scale * Max(vals))
    BY <1>3, <2>1, ValuesOfData
  <2> QED BY <2>1, <2>2
<1> QED BY <1>1, <1>2, <1>3, Zenon DEF BucketsAreRight

(* The two periods of a comparison. *)
LEMMA CountsOfPeriods ==
  ASSUME NEW A, Readable(A), NEW q \in Requests, q.kind = "buckets",
         q.compareWith # Null, PeriodsAreApart(q),
         NEW data, data = AggregatedResponse(A, q).data,
         NEW previous, previous = AggregatedResponse(A, q).previous
  PROVE  SumFunction([key \in DOMAIN data |-> data[key].count])
           + SumFunction([key \in DOMAIN previous |-> previous[key].count])
         <= Cardinality({r \in A : r.time <= EndOfDay(q.endDate)})
<1>1. PICK g, type : g = q.granularity /\ type = q.aggregationType
  OBVIOUS
<1>2. PICK before : before = PreviousPeriod(q.startDate, q.endDate, q.compareWith)
  OBVIOUS
<1>3. PICK earlier : earlier = [q EXCEPT !.startDate = before[1], !.endDate = before[2]]
  OBVIOUS
<1>4. /\ {"startDate", "endDate"} \subseteq DOMAIN q
      /\ q.startDate \in Instants /\ q.endDate \in Instants /\ g \in Granularities
      /\ q.compareWith = "year_over_year" =>
           \A time \in {q.startDate, q.endDate} : MonthOf(DayOf(time)) > MonthsInYear
  BY <1>1, RequestAssumption DEF RequestAssumption
<1>5. q.startDate \in Int /\ q.endDate \in Int
  BY <1>4, InstantsAreTimes
<1>6. PeriodBefore(before, q)
  BY <1>2, <1>4, <1>5, PreviousIsBefore, YearIsBefore
<1>7. before[1] \in Int /\ before[2] \in Int
  BY <1>6 DEF PeriodBefore
<1>8. earlier.startDate = before[1] /\ earlier.endDate = before[2]
  BY <1>3, <1>4
<1>9. data = AggregateReadings(A, q, g, type)
  BY <1>1, DataOfAnswer
<1>10. previous = AggregateReadings(A, earlier, g, type)
  BY <1>1, <1>2, <1>3, Zenon DEF AggregatedResponse
<1>11. SumFunction([key \in DOMAIN data |-> data[key].count]) = Cardinality(Matching(A, q))
  BY <1>4, <1>5, <1>9, BucketsAddUp
<1>12. SumFunction([key \in DOMAIN previous |-> previous[key].count])
         = Cardinality(Matching(A, earlier))
  <2>1. earlier.startDate \in Int /\ earlier.endDate \in Int
    BY <1>7, <1>8
  <2> QED BY <1>4, <1>10, <2>1, BucketsAddUp
<1>13. PICK B : B = {r \in A : r.time <= EndOfDay(q.endDate)}
  OBVIOUS
<1>14. Cardinality(Matching(A, q)) + Cardinality(Matching(A, earlier)) <= Cardinality(B)
  BY <1>5, <1>6, <1>8, <1>13, PeriodsDoNotOverlap
<1> QED BY <1>11, <1>12, <1>13, <1>14

-----------------------------------------------------------------------------
(* The parts of AggregatesAddUp *)

TotalsAddUp ==
  Ended({"daily", "weekly", "monthly"}) /\ "totalConsumption" \in Columns(request) =>
    SumFunction([i \in DOMAIN RowsWritten |-> RowsWritten[i].totalConsumption])
      = SumOf(IF request.kind = "daily" THEN InDays(asked.readings, request)
                                        ELSE asked.readings)

PeaksAreInWeeks ==
  Ended({"weekly"}) /\ {"weekStart", "weekEnd", "peakDay"} \subseteq Columns(request) =>
    \A i \in DOMAIN RowsWritten :
      RowsWritten[i].peakDay \in RowsWritten[i].weekStart..RowsWritten[i].weekEnd

(* The totals of the three exports. *)
LEMMA TotalsFile ==
  ASSUME ExportsInv PROVE TotalsAddUp
<1> SUFFICES ASSUME Ended({"daily", "weekly", "monthly"}), "totalConsumption" \in Columns(request)
             PROVE  TotalsAddUp
  BY DEF TotalsAddUp
<1>1. PICK A, W, q : A = asked.readings /\ W = RowsWritten /\ q = request
  OBVIOUS
<1>2. /\ phase = "ended" /\ q.kind \in {"daily", "weekly", "monthly"} /\ Streams(q)
      /\ "totalConsumption" \in Columns(q)
  BY <1>1 DEF Ended, Streams
<1>3. Readable(A) /\ IsWritten(W, ExportRows(A, asked.devices, q), q)
  BY <1>1, <1>2, EndedFiles
<1>4. {q.startDate, q.endDate} \subseteq Instants \cup {Null}
  <2>1. q \in Requests
    BY <1>1, <1>2 DEF ExportsInv, AnswerInv
  <2> QED BY <2>1, RequestAssumption DEF RequestAssumption
<1>5. SumFunction([i \in DOMAIN W |-> W[i].totalConsumption])
        = SumOf(IF q.kind = "daily" THEN InDays(A, q) ELSE A)
  <2>1. CASE q.kind = "daily"
    <3>1. ExportRows(A, asked.devices, q) = ComputeDailySummaries(A, q)
      BY <2>1 DEF ExportRows
    <3>2. SumFunction([i \in DOMAIN W |-> W[i].totalConsumption]) = SumOf(InDays(A, q))
      BY <1>2, <1>3, <1>4, <3>1, DailyTotals
    <3> QED BY <2>1, <3>2
  <2>2. CASE q.kind = "weekly"
    <3>1. ExportRows(A, asked.devices, q) = ComputeWeeklySummaries(A)
      BY <2>2 DEF ExportRows
    <3>2. SumFunction([i \in DOMAIN W |-> W[i].totalConsumption]) = SumOf(A)
      BY <1>2, <1>3, <3>1, WeeklyTotals
    <3> QED BY <2>2, <3>2
  <2>3. CASE q.kind = "monthly"
    <3>1. ExportRows(A, asked.devices, q) = ComputeMonthlySummaries(A)
      BY <2>3 DEF ExportRows
    <3>2. SumFunction([i \in DOMAIN W |-> W[i].totalConsumption]) = SumOf(A)
      BY <1>2, <1>3, <3>1, MonthlyTotals
    <3> QED BY <2>3, <3>2
  <2> QED BY <1>2, <2>1, <2>2, <2>3
<1> QED BY <1>1, <1>5, Zenon DEF TotalsAddUp

(* The peak days of the weekly export. *)
LEMMA PeaksFile ==
  ASSUME ExportsInv PROVE PeaksAreInWeeks
<1> SUFFICES ASSUME Ended({"weekly"}),
                    {"weekStart", "weekEnd", "peakDay"} \subseteq Columns(request)
             PROVE  PeaksAreInWeeks
  BY DEF PeaksAreInWeeks
<1>1. PICK A, W, q : A = asked.readings /\ W = RowsWritten /\ q = request
  OBVIOUS
<1>2. /\ phase = "ended" /\ q.kind = "weekly" /\ Streams(q)
      /\ {"weekStart", "weekEnd", "peakDay"} \subseteq Columns(q)
  BY <1>1 DEF Ended, Streams
<1>3. Readable(A) /\ IsWritten(W, ExportRows(A, asked.devices, q), q)
  BY <1>1, <1>2, EndedFiles
<1>4. ExportRows(A, asked.devices, q) = ComputeWeeklySummaries(A)
  BY <1>2 DEF ExportRows
<1>5. \A i \in DOMAIN W : W[i].peakDay \in W[i].weekStart..W[i].weekEnd
  BY <1>2, <1>3, <1>4, WeeklyPeaks
<1> QED BY <1>1, <1>5, Zenon DEF PeaksAreInWeeks

BucketsFileIsRight ==
  Ended({"buckets"}) =>
    /\ BucketsAreRight(body[1].data, body[1].totalReadings, asked.readings, request)
    /\ request.compareWith # Null /\ PeriodsAreApart(request) =>
         SumFunction([key \in DOMAIN body[1].data |-> body[1].data[key].count])
           + SumFunction([key \in DOMAIN body[1].previous |-> body[1].previous[key].count])
         <= Cardinality({r \in asked.readings : r.time <= EndOfDay(request.endDate)})

(* The answer to a request for buckets. *)
LEMMA BucketsFile ==
  ASSUME ExportsInv PROVE BucketsFileIsRight
<1> SUFFICES ASSUME Ended({"buckets"}) PROVE BucketsFileIsRight
  BY DEF BucketsFileIsRight
<1>1. PICK A, q, data, previous, total :
        /\ A = asked.readings /\ q = request
        /\ data = body[1].data /\ previous = body[1].previous /\ total = body[1].totalReadings
  OBVIOUS
<1>2. /\ q \in Requests /\ q.kind = "buckets" /\ Readable(A)
      /\ body[1] = AggregatedResponse(A, q)
  BY <1>1, BucketsAnswer
<1>3. /\ q.startDate \in Int /\ q.endDate \in Int /\ q.granularity \in Granularities
  <2>1. q.startDate \in Instants /\ q.endDate \in Instants /\ q.granularity \in Granularities
    BY <1>2, RequestAssumption DEF RequestAssumption
  <2> QED BY <2>1, InstantsAreTimes
<1>4. BucketsAreRight(data, total, A, q)
  <2>1. /\ data = AggregateReadings(A, q, q.granularity, q.aggregationType)
        /\ total = Cardinality(Matching(A, q))
    BY <1>1, <1>2, DataOfAnswer
  <2> QED BY <1>2, <1>3, <2>1, BucketsOfAnswer
<1>5. q.compareWith # Null /\ PeriodsAreApart(q) =>
        SumFunction([key \in DOMAIN data |-> data[key].count])
          + SumFunction([key \in DOMAIN previous |-> previous[key].count])
        <= Cardinality({r \in A : r.time <= EndOfDay(q.endDate)})
  <2>1. data = AggregatedResponse(A, q).data /\ previous = AggregatedResponse(A, q).previous
    BY <1>1, <1>2
  <2> QED BY <1>2, <2>1, CountsOfPeriods
<1> QED BY <1>1, <1>4, <1>5, Zenon DEF BucketsFileIsRight

(* AggregatesAddUp for every store, calendar, request and interleaving:     *)
(* totals of days, weeks and months, counts of buckets and meters add up    *)
(* to what they were taken from, values stay between the extremes, and      *)
(* compared periods share no reading.                                       *)
THEOREM AggregatesAgree == Spec => []AggregatesAddUp
<1>1. ExportsInv => AggregatesAddUp
  <2> SUFFICES ASSUME ExportsInv PROVE AggregatesAddUp
    OBVIOUS
  <2>1. TotalsAddUp /\ PeaksAreInWeeks /\ BucketsFileIsRight /\ FleetAddsUp
    BY TotalsFile, PeaksFile, BucketsFile, FleetFile
  <2> QED BY <2>1, Zenon
          DEF AggregatesAddUp, TotalsAddUp, PeaksAreInWeeks, BucketsFileIsRight, FleetAddsUp,
              BucketsAreRight
<1> QED BY <1>1, ExportsInvHolds, PTL
=============================================================================
