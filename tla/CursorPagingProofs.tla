------------------------- MODULE CursorPagingProofs -------------------------
(***************************************************************************)
(* Proofs about keyset pagination for every list, page size, sort direction *)
(* and sequence of changes: rows that stay are returned exactly once, and   *)
(* stepping back lands next to where the client was.                       *)
(*                                                                         *)
(* What a page is rests on CutFacts, stated of any strict total order on a  *)
(* finite set, so that it serves both directions of the walk: the elements *)
(* with fewer than n predecessors are at most n, come before all others,   *)
(* and are none only when there are none at all.                           *)
(***************************************************************************)
EXTENDS CursorPaging, FiniteSetTheorems, WellFoundedInduction, TLAPS

(* Orders as sets of pairs. *)
StrictOrder(R, S) ==
  /\ \A x \in S : <<x, x>> \notin R
  /\ \A x, y, z \in S : <<x, y>> \in R /\ <<y, z>> \in R => <<x, z>> \in R
  /\ \A x, y \in S : x # y => <<x, y>> \in R \/ <<y, x>> \in R

Preds(R, S, x) == {y \in S : <<y, x>> \in R}
Cut(R, S, n) == {x \in S : Cardinality(Preds(R, S, x)) < n}

-----------------------------------------------------------------------------
(* Any strict total order on a finite set *)

LEMMA PredsGrow ==
  ASSUME NEW S, IsFiniteSet(S), NEW R, StrictOrder(R, S),
         NEW x \in S, NEW y \in S, <<x, y>> \in R
  PROVE  /\ Preds(R, S, x) \subseteq Preds(R, S, y) /\ Preds(R, S, x) # Preds(R, S, y)
         /\ IsFiniteSet(Preds(R, S, x)) /\ IsFiniteSet(Preds(R, S, y))
         /\ Cardinality(Preds(R, S, x)) \in Nat /\ Cardinality(Preds(R, S, y)) \in Nat
         /\ Cardinality(Preds(R, S, x)) < Cardinality(Preds(R, S, y))
<1>1. Preds(R, S, x) \in SUBSET Preds(R, S, y) /\ Preds(R, S, y) \in SUBSET S
  BY DEF Preds, StrictOrder
<1>2. x \in Preds(R, S, y) /\ x \notin Preds(R, S, x)
  BY DEF Preds, StrictOrder
<1>3. IsFiniteSet(Preds(R, S, y))
  BY <1>1, FS_Subset
<1>4. IsFiniteSet(Preds(R, S, x))
      /\ Cardinality(Preds(R, S, x)) <= Cardinality(Preds(R, S, y))
      /\ Cardinality(Preds(R, S, x)) # Cardinality(Preds(R, S, y))
  BY <1>1, <1>2, <1>3, FS_Subset
<1>5. Cardinality(Preds(R, S, x)) \in Nat /\ Cardinality(Preds(R, S, y)) \in Nat
  BY <1>3, <1>4, FS_CardinalityType
<1> QED
  BY <1>1, <1>2, <1>3, <1>4, <1>5

LEMMA PredsFacts ==
  ASSUME NEW S, IsFiniteSet(S), NEW R, NEW x \in S
  PROVE  Preds(R, S, x) \in SUBSET S /\ IsFiniteSet(Preds(R, S, x))
         /\ Cardinality(Preds(R, S, x)) \in Nat
<1>1. Preds(R, S, x) \in SUBSET S
  BY DEF Preds
<1>2. IsFiniteSet(Preds(R, S, x))
  BY <1>1, FS_Subset
<1> QED
  BY <1>1, <1>2, FS_CardinalityType

(* Some element has no predecessor. *)
LEMMA LeastExists ==
  ASSUME NEW S, IsFiniteSet(S), S # {}, NEW R, StrictOrder(R, S)
  PROVE  \E x \in S : Preds(R, S, x) = {}
<1> DEFINE below == {Preds(R, S, x) : x \in S}
<1>1. IsWellFoundedOn(StrictSubsetOrdering(S), FiniteSubsetsOf(S))
  BY FS_StrictSubsetOrderingWellFounded
<1>2. below \subseteq FiniteSubsetsOf(S) /\ below # {}
  BY PredsFacts DEF FiniteSubsetsOf
<1>3. PICK least \in below : \A b \in below : ~ (<<b, least>> \in StrictSubsetOrdering(S))
  BY <1>1, <1>2, WFMin
<1>4. PICK x \in S : least = Preds(R, S, x)
  OBVIOUS
<1>5. ASSUME NEW y \in Preds(R, S, x) PROVE FALSE
  <2>1. y \in S /\ <<y, x>> \in R
    BY DEF Preds
  <2>2. Preds(R, S, y) \subseteq Preds(R, S, x) /\ Preds(R, S, y) # Preds(R, S, x)
    BY <2>1, PredsGrow
  <2>3. Preds(R, S, y) \in SUBSET S /\ Preds(R, S, x) \in SUBSET S
    BY <2>1, PredsFacts
  <2>4. <<Preds(R, S, y), least>> \in StrictSubsetOrdering(S)
    BY <1>4, <2>2, <2>3 DEF StrictSubsetOrdering
  <2> QED
    BY <1>3, <2>1, <2>4
<1> QED
  BY <1>5

LEMMA CutFacts ==
  ASSUME NEW S, IsFiniteSet(S), NEW R, StrictOrder(R, S), NEW n \in Nat \ {0}
  PROVE  /\ Cut(R, S, n) \subseteq S /\ IsFiniteSet(Cut(R, S, n))
         /\ Cardinality(Cut(R, S, n)) <= n
         /\ \A x \in Cut(R, S, n), y \in S \ Cut(R, S, n) : <<x, y>> \in R
         /\ S # {} => Cut(R, S, n) # {}
<1> DEFINE rank == [x \in Cut(R, S, n) |-> Cardinality(Preds(R, S, x))]
<1>1. Cut(R, S, n) \in SUBSET S /\ IsFiniteSet(Cut(R, S, n))
  <2>1. Cut(R, S, n) \in SUBSET S
    BY DEF Cut
  <2> QED
    BY <2>1, FS_Subset
<1>2. \A x \in S : Cardinality(Preds(R, S, x)) \in Nat
  BY PredsFacts
<1>3. \A x, y \in S : <<x, y>> \in R => Cardinality(Preds(R, S, x)) < Cardinality(Preds(R, S, y))
  BY PredsGrow
<1>4. ASSUME NEW x \in Cut(R, S, n), NEW y \in S \ Cut(R, S, n)
      PROVE  <<x, y>> \in R
  <2>1. x \in S /\ x # y
    BY DEF Cut
  <2>2. Cardinality(Preds(R, S, x)) < n /\ ~ (Cardinality(Preds(R, S, y)) < n)
    BY DEF Cut
  <2>3. <<y, x>> \notin R
    BY <1>2, <1>3, <2>1, <2>2
  <2> QED
    BY <2>1, <2>3 DEF StrictOrder
<1>5. S # {} => Cut(R, S, n) # {}
  <2> SUFFICES ASSUME S # {} PROVE Cut(R, S, n) # {}
    OBVIOUS
  <2>1. PICK x \in S : Preds(R, S, x) = {}
    BY LeastExists
  <2>2. Cardinality(Preds(R, S, x)) = 0
    BY <2>1, FS_EmptySet
  <2> QED
    BY <2>2 DEF Cut
<1>6. rank \in Injection(Cut(R, S, n), 0..(n - 1))
  <2>1. rank \in [Cut(R, S, n) -> 0..(n - 1)]
    BY <1>1, <1>2 DEF Cut
  <2>2. ASSUME NEW x \in Cut(R, S, n), NEW y \in Cut(R, S, n), rank[x] = rank[y]
        PROVE  x = y
    <3>1. x \in S /\ y \in S
      BY <1>1
    <3>2. <<x, y>> \notin R /\ <<y, x>> \notin R
      BY <1>2, <1>3, <2>2, <3>1
    <3> QED
      BY <3>1, <3>2 DEF StrictOrder
  <2> QED
    BY <2>1, <2>2 DEF Injection, IsInjective
<1>7. IsFiniteSet(0..(n - 1)) /\ Cardinality(0..(n - 1)) = n
  <2>1. IsFiniteSet(0..(n - 1)) /\ Cardinality(0..(n - 1)) = IF 0 > n - 1 THEN 0 ELSE n - 1 - 0 + 1
    BY FS_Interval
  <2> QED
    BY <2>1
<1>8. Cardinality(Cut(R, S, n)) <= n
  BY <1>6, <1>7, FS_Injection
<1> QED
  BY <1>1, <1>4, <1>5, <1>8

-----------------------------------------------------------------------------
(* The order of the rows *)

BeforeRel == {p \in Row \X Row : Before(p[1], p[2])}
AfterRel == {p \in Row \X Row : Before(p[2], p[1])}

LEMMA BeforeIsStrictAndTotal ==
  ASSUME NEW r \in Row, NEW s \in Row, NEW t \in Row
  PROVE  /\ ~ Before(r, r)
         /\ Before(r, s) /\ Before(s, t) => Before(r, t)
         /\ r # s => Before(r, s) \/ Before(s, r)
<1>1. /\ r.id \in Int /\ s.id \in Int /\ t.id \in Int /\ Missing \notin Int
      /\ r.key \in Int \cup {Missing} /\ s.key \in Int \cup {Missing}
      /\ t.key \in Int \cup {Missing}
  BY PagingAssumption DEF Row, PagingAssumption
<1>2. r # s => r.id # s.id \/ r.key # s.key
  BY DEF Row
<1>3. CASE order = "desc"
  BY <1>1, <1>2, <1>3 DEF Before, KeyBefore, Less
<1>4. CASE order # "desc"
  BY <1>1, <1>2, <1>4 DEF Before, KeyBefore, Less
<1> QED
  BY <1>3, <1>4

LEMMA RowsAreOrdered ==
  ASSUME NEW S \in SUBSET Row
  PROVE  StrictOrder(BeforeRel, S) /\ StrictOrder(AfterRel, S)
<1>1. \A x, y \in S : <<x, y>> \in BeforeRel <=> Before(x, y)
  BY DEF BeforeRel
<1>2. \A x, y \in S : <<x, y>> \in AfterRel <=> Before(y, x)
  BY DEF AfterRel
<1>3. StrictOrder(BeforeRel, S)
  <2>1. ASSUME NEW x \in S PROVE <<x, x>> \notin BeforeRel
    <3>1. ~ Before(x, x)
      BY BeforeIsStrictAndTotal
    <3> QED
      BY <3>1, <1>1
  <2>2. ASSUME NEW x \in S, NEW y \in S, NEW z \in S, <<x, y>> \in BeforeRel, <<y, z>> \in BeforeRel
        PROVE  <<x, z>> \in BeforeRel
    <3>1. Before(x, y) /\ Before(y, z)
      BY <2>2, <1>1
    <3>2. Before(x, z)
      BY <3>1, BeforeIsStrictAndTotal
    <3> QED
      BY <3>2, <1>1
  <2>3. ASSUME NEW x \in S, NEW y \in S, x # y
        PROVE  <<x, y>> \in BeforeRel \/ <<y, x>> \in BeforeRel
    <3>1. Before(x, y) \/ Before(y, x)
      BY <2>3, BeforeIsStrictAndTotal
    <3> QED
      BY <3>1, <1>1
  <2> QED
    BY <2>1, <2>2, <2>3 DEF StrictOrder
<1>4. StrictOrder(AfterRel, S)
  <2>1. ASSUME NEW x \in S PROVE <<x, x>> \notin AfterRel
    <3>1. ~ Before(x, x)
      BY BeforeIsStrictAndTotal
    <3> QED
      BY <3>1, <1>2
  <2>2. ASSUME NEW x \in S, NEW y \in S, NEW z \in S, <<x, y>> \in AfterRel, <<y, z>> \in AfterRel
        PROVE  <<x, z>> \in AfterRel
    <3>1. Before(y, x) /\ Before(z, y)
      BY <2>2, <1>2
    <3>2. Before(z, x)
      BY <3>1, BeforeIsStrictAndTotal
    <3> QED
      BY <3>2, <1>2
  <2>3. ASSUME NEW x \in S, NEW y \in S, x # y
        PROVE  <<x, y>> \in AfterRel \/ <<y, x>> \in AfterRel
    <3>1. Before(x, y) \/ Before(y, x)
      BY <2>3, BeforeIsStrictAndTotal
    <3> QED
      BY <3>1, <1>2
  <2> QED
    BY <2>1, <2>2, <2>3 DEF StrictOrder
<1> QED
  BY <1>3, <1>4

LEMMA RowsFacts ==
  ASSUME DOMAIN rows \subseteq Ids, rows \in [DOMAIN rows -> Stored]
  PROVE  Rows \in SUBSET Row /\ IsFiniteSet(Rows)
<1> DEFINE make == [i \in Narrowed |-> [id |-> i, key |-> rows[i].key]]
<1>1. Rows \in SUBSET Row
  BY DEF Rows, Row, Narrowed, Stored
<1>2. IsFiniteSet(Narrowed)
  <2>1. Narrowed \in SUBSET Ids
    BY DEF Narrowed
  <2> QED
    BY <2>1, PagingAssumption, FS_Subset DEF PagingAssumption
<1>3. make \in Surjection(Narrowed, Rows)
  BY DEF Surjection, Rows
<1> QED
  BY <1>1, <1>2, <1>3, FS_Surjection

(* The first and the last rows of a list: at most a page, adjacent to the   *)
(* end they are taken from, and none only of an empty list.                *)
LEMMA PageFacts ==
  ASSUME NEW S \in SUBSET Row, IsFiniteSet(S)
  PROVE  /\ First(S) \subseteq S /\ Cardinality(First(S)) <= Limit
         /\ \A r \in First(S), q \in S \ First(S) : Before(r, q)
         /\ S # {} => First(S) # {}
         /\ Last(S) \subseteq S /\ Cardinality(Last(S)) <= Limit
         /\ \A r \in Last(S), q \in S \ Last(S) : Before(q, r)
<1>1. Limit \in Nat \ {0}
  BY PagingAssumption DEF PagingAssumption
<1>2. StrictOrder(BeforeRel, S) /\ StrictOrder(AfterRel, S)
  BY RowsAreOrdered
<1>3. First(S) = Cut(BeforeRel, S, Limit)
  <2>1. \A r \in S : {s \in S : Before(s, r)} = Preds(BeforeRel, S, r)
    BY DEF Preds, BeforeRel
  <2> QED
    BY <2>1 DEF First, Cut
<1>4. Last(S) = Cut(AfterRel, S, Limit)
  <2>1. \A r \in S : {s \in S : Before(r, s)} = Preds(AfterRel, S, r)
    BY DEF Preds, AfterRel
  <2> QED
    BY <2>1 DEF Last, Cut
<1>5. /\ First(S) \subseteq S /\ Cardinality(First(S)) <= Limit
      /\ \A x \in First(S), y \in S \ First(S) : <<x, y>> \in BeforeRel
      /\ S # {} => First(S) # {}
  BY <1>1, <1>2, <1>3, CutFacts
<1>6. /\ Last(S) \subseteq S /\ Cardinality(Last(S)) <= Limit
      /\ \A x \in Last(S), y \in S \ Last(S) : <<x, y>> \in AfterRel
  BY <1>1, <1>2, <1>4, CutFacts
<1> QED
  BY <1>5, <1>6 DEF BeforeRel, AfterRel

-----------------------------------------------------------------------------
(* The walk.  The inductive invariant adds to the properties that a walk on *)
(* its way has a cursor, and that no row is steady before it began.        *)

WalkInv ==
  /\ mode = "cursor" /\ walk = "forward" => next # None
  /\ walk = "none" => steady = {}
  /\ mode = "offset" => next = None /\ prev = None

IndInv == TypeOK /\ SteadyRowsAreReturnedOnce /\ SteadyRowsAreAhead /\ WalkInv

RowOf(i) == [id |-> i, key |-> rows[i].key]

LEMMA InitIndInv == Init => IndInv
<1> SUFFICES ASSUME Init PROVE IndInv
  OBVIOUS
<1>1. /\ DOMAIN rows \subseteq Ids \ fresh /\ fresh \subseteq Ids
      /\ rows \in [DOMAIN rows -> Stored]
  BY DEF Init
<1>2. changes \in 0..MaxChanges /\ Limit \in Nat
  BY PagingAssumption DEF Init, PagingAssumption
<1>3. Cardinality({}) = 0
  BY FS_EmptySet
<1>4. TypeOK
  BY <1>1, <1>2, <1>3 DEF Init, TypeOK
<1> QED
  BY <1>4 DEF Init, IndInv, SteadyRowsAreReturnedOnce, SteadyRowsAreAhead, WalkInv

(* What a served page and its cursors are, when the page is the beginning   *)
(* of the rows S that come after some position.                            *)
LEMMA ServeFacts ==
  ASSUME IndInv, NEW S \in SUBSET Rows, NEW P \in SUBSET S, Serve(P), Cardinality(P) <= Limit
  PROVE  /\ page' = P /\ page' \subseteq Row /\ Cardinality(page') <= Limit
         /\ next' \in page' \cup {None} /\ prev' \in page' \cup {None}
         /\ next' # None => \A s \in P \ {next'} : Before(s, next')
         /\ (P # {} /\ \E q \in Rows \ P : \A s \in P : Before(s, q)) => next' # None
<1>1. Rows \in SUBSET Row
  BY RowsFacts DEF IndInv, TypeOK
<1>2. None \notin Row
  BY PagingAssumption DEF PagingAssumption, Row
<1> QED
  BY <1>1, <1>2 DEF Serve

LEMMA CountFacts ==
  ASSUME NEW P \in SUBSET Rows
  PROVE  /\ Count(P) \in [Ids -> {0, 1}]
         /\ \A i \in Narrowed \cap Ids : Count(P)[i] = IF RowOf(i) \in P THEN 1 ELSE 0
BY DEF Count, Rows, RowOf

LEMMA RestFacts ==
  ASSUME IndInv, NEW cursor \in Row \cup {None}
  PROVE  Rest(cursor) \in SUBSET Rows /\ Rest(cursor) \in SUBSET Row /\ IsFiniteSet(Rest(cursor))
<1>1. Rows \in SUBSET Row /\ IsFiniteSet(Rows)
  BY RowsFacts DEF IndInv, TypeOK
<1>2. Rest(cursor) \in SUBSET Rows
  BY DEF Rest
<1> QED
  BY <1>1, <1>2, FS_Subset

LEMMA FirstPageKeepsIndInv == IndInv /\ FirstPage => IndInv'
<1> SUFFICES ASSUME IndInv, FirstPage PROVE IndInv'
  OBVIOUS
<1> DEFINE P == First(Rest(None))
<1>1. /\ mode = "cursor" /\ Serve(P) /\ walk' = (IF next' = None THEN "done" ELSE "forward")
      /\ seen' = Count(page') /\ steady' = Narrowed
      /\ rows' = rows /\ fresh' = fresh /\ changes' = changes /\ order' = order
      /\ mode' = mode /\ number' = number
  BY DEF FirstPage, data
<1>2. Rest(None) = Rows /\ Rows \in SUBSET Row /\ IsFiniteSet(Rows)
  BY RestFacts DEF Rest
<1>3. /\ P \subseteq Rows /\ Cardinality(P) <= Limit
      /\ \A r \in P, q \in Rows \ P : Before(r, q) /\ (Rows # {} => P # {})
  BY <1>2, PageFacts
<1>4. /\ page' = P /\ page' \subseteq Row /\ Cardinality(page') <= Limit
      /\ next' \in page' \cup {None} /\ prev' \in page' \cup {None}
      /\ next' # None => \A s \in P \ {next'} : Before(s, next')
      /\ (P # {} /\ \E q \in Rows \ P : \A s \in P : Before(s, q)) => next' # None
  BY <1>1, <1>3, ServeFacts
<1>5. Narrowed \subseteq Ids /\ \A i \in Narrowed : RowOf(i) \in Rows /\ RowOf(i) \in Row
  BY <1>2 DEF IndInv, TypeOK, Rows, RowOf, Narrowed
<1>6. /\ seen' \in [Ids -> {0, 1}]
      /\ \A i \in Narrowed : seen'[i] = IF RowOf(i) \in P THEN 1 ELSE 0
  BY <1>1, <1>3, <1>4, <1>5, CountFacts
<1>7. TypeOK'
  <2>1. Narrowed' = Narrowed
    BY <1>1 DEF Narrowed
  <2> QED
    BY <1>1, <1>4, <1>6, <2>1 DEF IndInv, TypeOK
<1>8. ASSUME NEW i \in Narrowed
      PROVE  /\ RowOf(i) \notin P => next' # None /\ Before(next', RowOf(i))
             /\ RowOf(i) \in P /\ next' # None => ~ Before(next', RowOf(i))
  <2>1. CASE RowOf(i) \notin P
    <3>1. P # {}
      BY <2>1, <1>2, <1>5, PageFacts
    <3>2. \A s \in P : Before(s, RowOf(i))
      BY <2>1, <1>3, <1>5
    <3>3. next' # None /\ next' \in P
      BY <2>1, <3>1, <3>2, <1>4, <1>5
    <3> QED
      BY <2>1, <3>2, <3>3
  <2>2. CASE RowOf(i) \in P /\ next' # None
    <3>1. next' \in P /\ next' \in Row /\ RowOf(i) \in Row
      BY <2>2, <1>4, <1>5
    <3>2. RowOf(i) = next' \/ Before(RowOf(i), next')
      BY <2>2, <1>4
    <3> QED
      BY <2>2, <3>1, <3>2, BeforeIsStrictAndTotal
  <2> QED
    BY <2>1, <2>2
<1>9. SteadyRowsAreReturnedOnce'
  BY <1>1, <1>6, <1>8 DEF SteadyRowsAreReturnedOnce
<1>10. SteadyRowsAreAhead'
  <2> SUFFICES ASSUME walk' = "forward", NEW i \in steady'
               PROVE  seen'[i] = 0 <=> Before(next, [id |-> i, key |-> rows[i].key])'
    BY DEF SteadyRowsAreAhead
  <2>1. Before(next, [id |-> i, key |-> rows[i].key])' <=> Before(next', RowOf(i))
    BY <1>1 DEF Before, KeyBefore, Less, RowOf
  <2> QED
    BY <1>1, <1>6, <1>8, <2>1
<1>11. WalkInv'
  BY <1>1 DEF WalkInv
<1> QED
  BY <1>7, <1>9, <1>10, <1>11 DEF IndInv

LEMMA NextPageKeepsIndInv == IndInv /\ NextPage => IndInv'
<1> SUFFICES ASSUME IndInv, NextPage PROVE IndInv'
  OBVIOUS
<1> DEFINE S == Rest(next)
           P == First(S)
<1>1. /\ mode = "cursor" /\ walk = "forward" /\ Serve(P) /\ walk' = (IF next' = None THEN "done" ELSE "forward")
      /\ seen' = [i \in Ids |-> seen[i] + Count(page')[i]] /\ steady' = steady
      /\ rows' = rows /\ fresh' = fresh /\ changes' = changes /\ order' = order
      /\ mode' = mode /\ number' = number
  BY DEF NextPage, data
<1>2. next # None /\ next \in Row
  BY <1>1 DEF IndInv, TypeOK, WalkInv
<1>3. S \in SUBSET Rows /\ S \in SUBSET Row /\ IsFiniteSet(S) /\ Rows \in SUBSET Row
  BY <1>2, RestFacts, RowsFacts DEF IndInv, TypeOK
<1>4. /\ P \in SUBSET S /\ Cardinality(P) <= Limit
      /\ \A r \in P, q \in S \ P : Before(r, q)
      /\ S # {} => P # {}
  BY <1>3, PageFacts
<1>5. /\ page' = P /\ page' \subseteq Row /\ Cardinality(page') <= Limit
      /\ next' \in page' \cup {None} /\ prev' \in page' \cup {None}
      /\ next' # None => \A s \in P \ {next'} : Before(s, next')
      /\ (P # {} /\ \E q \in Rows \ P : \A s \in P : Before(s, q)) => next' # None
  BY <1>1, <1>3, <1>4, ServeFacts
<1>6. /\ Narrowed \subseteq Ids /\ steady \subseteq Narrowed /\ seen \in [Ids -> Nat]
      /\ \A i \in Narrowed : RowOf(i) \in Rows /\ RowOf(i) \in Row
  BY <1>3 DEF IndInv, TypeOK, Rows, RowOf, Narrowed
<1>7. /\ Count(page') \in [Ids -> {0, 1}]
      /\ \A i \in Narrowed : Count(page')[i] = IF RowOf(i) \in P THEN 1 ELSE 0
  <2>1. P \in SUBSET Rows
    BY <1>3, <1>4
  <2> QED
    BY <1>5, <1>6, <2>1, CountFacts
<1>8. seen' \in [Ids -> Nat]
  BY <1>1, <1>6, <1>7
<1>9. TypeOK'
  <2>1. Narrowed' = Narrowed
    BY <1>1 DEF Narrowed
  <2> QED
    BY <1>1, <1>5, <1>8, <2>1 DEF IndInv, TypeOK
<1>10. ASSUME NEW i \in steady
       PROVE  \/ seen'[i] = 0 /\ next' # None /\ Before(next', RowOf(i))
              \/ seen'[i] = 1 /\ (next' # None => ~ Before(next', RowOf(i)))
  <2>1. /\ i \in Narrowed /\ i \in Ids /\ RowOf(i) \in Rows /\ RowOf(i) \in Row
        /\ seen[i] \in Nat /\ seen[i] <= 1 /\ (seen[i] = 0 <=> Before(next, RowOf(i)))
        /\ (RowOf(i) \in S <=> Before(next, RowOf(i)))
    BY <1>1, <1>2, <1>6
       DEF IndInv, SteadyRowsAreReturnedOnce, SteadyRowsAreAhead, RowOf, Rest
  <2>2. seen'[i] = seen[i] + (IF RowOf(i) \in P THEN 1 ELSE 0)
    BY <1>1, <1>7, <2>1
  <2>3. CASE RowOf(i) \notin S
    <3>1. seen'[i] = 1
      BY <1>4, <2>1, <2>2, <2>3
    <3>2. ASSUME next' # None, Before(next', RowOf(i)) PROVE FALSE
      <4>1. next' \in S /\ next' \in Row /\ Before(next, next')
        BY <1>2, <1>3, <1>4, <1>5, <3>2 DEF Rest
      <4> QED
        BY <1>2, <2>1, <2>3, <3>2, <4>1, BeforeIsStrictAndTotal
    <3> QED
      BY <3>1, <3>2
  <2>4. CASE RowOf(i) \in P
    <3>1. seen'[i] = 1
      BY <1>4, <2>1, <2>2, <2>4
    <3>2. ASSUME next' # None, Before(next', RowOf(i)) PROVE FALSE
      <4>1. next' \in Row /\ (RowOf(i) = next' \/ Before(RowOf(i), next'))
        BY <1>5, <2>4, <3>2
      <4> QED
        BY <2>1, <3>2, <4>1, BeforeIsStrictAndTotal
    <3> QED
      BY <3>1, <3>2
  <2>5. CASE RowOf(i) \in S \ P
    <3>1. seen'[i] = 0
      BY <2>1, <2>2, <2>5
    <3>2. P # {} /\ \A s \in P : Before(s, RowOf(i))
      BY <1>4, <2>5
    <3>3. next' # None /\ next' \in P
      BY <1>5, <2>1, <2>5, <3>2
    <3> QED
      BY <3>1, <3>2, <3>3
  <2> QED
    BY <2>3, <2>4, <2>5
<1>11. SteadyRowsAreReturnedOnce'
  BY <1>1, <1>10 DEF SteadyRowsAreReturnedOnce
<1>12. SteadyRowsAreAhead'
  <2> SUFFICES ASSUME walk' = "forward", NEW i \in steady'
               PROVE  seen'[i] = 0 <=> Before(next, [id |-> i, key |-> rows[i].key])'
    BY DEF SteadyRowsAreAhead
  <2>1. Before(next, [id |-> i, key |-> rows[i].key])' <=> Before(next', RowOf(i))
    BY <1>1 DEF Before, KeyBefore, Less, RowOf
  <2>2. next' # None
    BY <1>1
  <2> QED
    BY <1>1, <1>10, <2>1, <2>2
<1>13. WalkInv'
  BY <1>1 DEF WalkInv
<1> QED
  BY <1>9, <1>11, <1>12, <1>13 DEF IndInv

LEMMA AheadFacts ==
  ASSUME IndInv, NEW cursor \in Row
  PROVE  Ahead(cursor) \in SUBSET Rows /\ Ahead(cursor) \in SUBSET Row
         /\ IsFiniteSet(Ahead(cursor))
<1>1. Rows \in SUBSET Row /\ IsFiniteSet(Rows)
  BY RowsFacts DEF IndInv, TypeOK
<1>2. Ahead(cursor) \in SUBSET Rows
  BY DEF Ahead
<1> QED
  BY <1>1, <1>2, FS_Subset

LEMMA PrevPageKeepsIndInv == IndInv /\ PrevPage => IndInv'
<1> SUFFICES ASSUME IndInv, PrevPage PROVE IndInv'
  OBVIOUS
<1> DEFINE P == Last(Ahead(prev))
<1>1. /\ mode = "cursor" /\ Serve(P) /\ walk' = "back" /\ seen' = seen /\ steady' = steady
      /\ rows' = rows /\ fresh' = fresh /\ changes' = changes /\ order' = order
      /\ mode' = mode /\ number' = number
  BY DEF PrevPage, data
<1>2. prev \in Row
  BY DEF PrevPage, IndInv, TypeOK
<1>3. Ahead(prev) \in SUBSET Rows /\ P \in SUBSET Ahead(prev) /\ Cardinality(P) <= Limit
  BY <1>2, AheadFacts, PageFacts
<1>4. /\ page' \subseteq Row /\ Cardinality(page') <= Limit
      /\ next' \in page' \cup {None} /\ prev' \in page' \cup {None}
  BY <1>1, <1>3, ServeFacts
<1>5. TypeOK'
  <2>1. Narrowed' = Narrowed
    BY <1>1 DEF Narrowed
  <2> QED
    BY <1>1, <1>4, <2>1 DEF IndInv, TypeOK
<1> QED
  BY <1>1, <1>5 DEF IndInv, SteadyRowsAreReturnedOnce, SteadyRowsAreAhead, WalkInv

LEMMA OffsetPageKeepsIndInv == IndInv /\ OffsetPage => IndInv'
<1> SUFFICES ASSUME IndInv, OffsetPage PROVE IndInv'
  OBVIOUS
<1>1. /\ mode = "offset" /\ mode' = mode /\ number' = number + 1 /\ page' = Slice(number')
      /\ walk' \in {"forward", "done"} /\ steady' \in {Narrowed, steady}
      /\ seen' = [i \in Ids |-> seen[i] + Count(page')[i]]
      /\ rows' = rows /\ fresh' = fresh /\ changes' = changes /\ order' = order
      /\ next' = next /\ prev' = prev
  BY DEF OffsetPage, data
<1>2. page' \subseteq Row
  BY <1>1, RowsFacts DEF Slice, IndInv, TypeOK
<1>3. Count(page') \in [Ids -> {0, 1}]
  BY DEF Count
<1>4. seen' \in [Ids -> Nat]
  BY <1>1, <1>3 DEF IndInv, TypeOK
<1>5. Narrowed' = Narrowed
  BY <1>1 DEF Narrowed
<1>6. next = None /\ prev = None
  BY <1>1 DEF IndInv, WalkInv
<1>7. TypeOK'
  BY <1>1, <1>2, <1>4, <1>5, <1>6 DEF IndInv, TypeOK
<1> QED
  BY <1>1, <1>6, <1>7 DEF IndInv, SteadyRowsAreReturnedOnce, SteadyRowsAreAhead, WalkInv

LEMMA RestartKeepsIndInv == IndInv /\ Restart => IndInv'
<1> SUFFICES ASSUME IndInv, Restart PROVE IndInv'
  OBVIOUS
<1>1. MaxChanges \in Nat /\ Limit \in Nat
  BY PagingAssumption DEF PagingAssumption
<1>2. Cardinality({}) = 0
  BY FS_EmptySet
<1>3. TypeOK'
  BY <1>1, <1>2 DEF Restart, IndInv, TypeOK
<1> QED
  BY <1>3 DEF Restart, IndInv, SteadyRowsAreReturnedOnce, SteadyRowsAreAhead, WalkInv

LEMMA SteadyIsStored == IndInv => steady \subseteq DOMAIN rows
BY DEF IndInv, TypeOK, Narrowed

(* A change of the list leaves the rows that are still steady as they were. *)
LEMMA ChangeKeepsIndInv ==
  ASSUME IndInv, NEW id \in Ids,
         Delete(id) \/ \E x \in Stored : Insert(id, x) \/ Update(id, x)
  PROVE  IndInv'
<1>1. /\ order' = order /\ page' = page /\ next' = next /\ prev' = prev /\ walk' = walk
      /\ seen' = seen /\ mode' = mode /\ number' = number
  BY DEF Delete, Insert, Update
<1>2. changes' \in 0..MaxChanges
  BY PagingAssumption DEF Delete, Insert, Update, Change, IndInv, TypeOK, PagingAssumption
<1>3. /\ DOMAIN rows' \subseteq Ids \ fresh' /\ fresh' \subseteq Ids
      /\ rows' \in [DOMAIN rows' -> Stored]
      /\ steady' \subseteq steady /\ steady' \subseteq DOMAIN rows'
      /\ \A i \in steady' : rows'[i] = rows[i]
  <2>1. CASE Delete(id)
    BY <2>1, SteadyIsStored DEF Delete, IndInv, TypeOK
  <2>2. ASSUME NEW x \in Stored, Insert(id, x)
        PROVE  /\ DOMAIN rows' \subseteq Ids \ fresh' /\ fresh' \subseteq Ids
               /\ rows' \in [DOMAIN rows' -> Stored]
               /\ steady' \subseteq steady /\ steady' \subseteq DOMAIN rows'
               /\ \A i \in steady' : rows'[i] = rows[i]
    BY <2>2, SteadyIsStored DEF Insert, IndInv, TypeOK
  <2>3. ASSUME NEW x \in Stored, Update(id, x)
        PROVE  /\ DOMAIN rows' \subseteq Ids \ fresh' /\ fresh' \subseteq Ids
               /\ rows' \in [DOMAIN rows' -> Stored]
               /\ steady' \subseteq steady /\ steady' \subseteq DOMAIN rows'
               /\ \A i \in steady' : rows'[i] = rows[i]
    BY <2>3, SteadyIsStored DEF Update, IndInv, TypeOK
  <2> QED
    BY <2>1, <2>2, <2>3
<1>4. TypeOK'
  <2>1. steady \subseteq Narrowed
    BY DEF IndInv, TypeOK
  <2>2. steady' \subseteq Narrowed'
    BY <1>3, <2>1 DEF Narrowed, Searched, Filtered, InRange
  <2> QED
    BY <1>1, <1>2, <1>3, <2>2 DEF IndInv, TypeOK
<1>5. SteadyRowsAreReturnedOnce' /\ WalkInv'
  BY <1>1, <1>3 DEF IndInv, SteadyRowsAreReturnedOnce, WalkInv
<1>6. SteadyRowsAreAhead'
  <2> SUFFICES ASSUME mode' = "cursor", walk' = "forward", NEW i \in steady'
               PROVE  seen'[i] = 0 <=> Before(next, [id |-> i, key |-> rows[i].key])'
    BY DEF SteadyRowsAreAhead
  <2>1. Before(next, [id |-> i, key |-> rows[i].key])' <=> Before(next, [id |-> i, key |-> rows[i].key])
    BY <1>1, <1>3 DEF Before, KeyBefore, Less
  <2> QED
    BY <1>1, <1>3, <2>1 DEF IndInv, SteadyRowsAreAhead
<1> QED
  BY <1>4, <1>5, <1>6 DEF IndInv

LEMMA NextKeepsIndInv == IndInv /\ [Next]_vars => IndInv'
<1> SUFFICES ASSUME IndInv, [Next]_vars PROVE IndInv'
  OBVIOUS
<1>1. CASE UNCHANGED vars
  BY <1>1 DEF vars, data, IndInv, TypeOK, SteadyRowsAreReturnedOnce, SteadyRowsAreAhead, WalkInv,
             Before, KeyBefore, Less, Narrowed
<1> QED
  BY <1>1, FirstPageKeepsIndInv, NextPageKeepsIndInv, PrevPageKeepsIndInv,
     OffsetPageKeepsIndInv, RestartKeepsIndInv, ChangeKeepsIndInv
     DEF Next

THEOREM IndInvHolds == Spec => []IndInv
BY InitIndInv, NextKeepsIndInv, PTL DEF Spec

-----------------------------------------------------------------------------
(* A page of paginateByCursor() never exceeds its limit, its cursors are    *)
(* positions of its own rows, and all else is as the code can make it.      *)
THEOREM TypesAreKept == Spec => []TypeOK
<1>1. IndInv => TypeOK
  BY DEF IndInv
<1> QED
  BY <1>1, IndInvHolds, PTL

(* A forward walk over nextCursor returns every row that stays as it is      *)
(* exactly once, whatever is inserted, changed and deleted meanwhile.        *)
THEOREM WalkIsExact == Spec => []SteadyRowsAreReturnedOnce
<1>1. IndInv => SteadyRowsAreReturnedOnce
  BY DEF IndInv
<1> QED
  BY <1>1, IndInvHolds, PTL

(* On the way, the rows not returned yet are those after the cursor.         *)
THEOREM NothingIsSkipped == Spec => []SteadyRowsAreAhead
<1>1. IndInv => SteadyRowsAreAhead
  BY DEF IndInv
<1> QED
  BY <1>1, IndInvHolds, PTL

(* A request with prevCursor returns the rows next to the position that the  *)
(* client came from.                                                       *)
THEOREM SteppingBackIsAdjacent == Spec => BackIsAdjacent
<1> DEFINE Adjacent == walk' = "back" /\ page' # page =>
                         \A q \in Ahead(prev) \ page' : \A r \in page' : Before(q, r)
<1>1. ASSUME IndInv, Next, walk' = "back", page' # page
      PROVE  \A q \in Ahead(prev) \ page' : \A r \in page' : Before(q, r)
  <2>1. PrevPage
    BY <1>1 DEF Next, FirstPage, NextPage, OffsetPage, Restart, Insert, Update, Delete
  <2>2. prev \in Row /\ page' = Last(Ahead(prev))
    BY <1>1, <2>1 DEF PrevPage, Serve, IndInv, TypeOK
  <2> QED
    BY <1>1, <2>2, AheadFacts, PageFacts
<1>2. IndInv /\ [Next]_vars => [Adjacent]_vars
  BY <1>1
<1>3. Spec => [][Adjacent]_vars
  BY <1>2, IndInvHolds, PTL DEF Spec
<1> QED
  BY <1>3 DEF BackIsAdjacent

-----------------------------------------------------------------------------
(* Walking by offset.  The places before number * Limit are behind the      *)
(* client.  A row has drifted when it was returned more or less often than *)
(* where it now lies says.  A page returns the rows it leaves behind, so    *)
(* none drifts; a change moves the places of the others by one, so it       *)
(* takes at most one of them over the border.                              *)

ArrayRel == {p \in Row \X Row : ArrayBefore(p[1], p[2])}

Place(i) == Cardinality(Preds(ArrayRel, Rows, RowOf(i)))
Behind(i) == Place(i) < number * Limit
Drifted == {i \in steady : seen[i] # IF walk = "done" \/ Behind(i) THEN 1 ELSE 0}

DriftInv ==
  mode = "offset" =>
    /\ walk \in {"none", "forward", "done"}
    /\ walk = "none" => number = 0 /\ \A i \in Ids : seen[i] = 0
    /\ Cardinality(Drifted) <= changes

LEMMA ArrayIsOrdered ==
  ASSUME NEW S \in SUBSET Row
  PROVE  StrictOrder(ArrayRel, S)
<1>1. ASSUME NEW r \in S, NEW s \in S, NEW t \in S
      PROVE  /\ <<r, r>> \notin ArrayRel
             /\ <<r, s>> \in ArrayRel /\ <<s, t>> \in ArrayRel => <<r, t>> \in ArrayRel
             /\ r # s => <<r, s>> \in ArrayRel \/ <<s, r>> \in ArrayRel
  <2>1. /\ r.id \in Int /\ s.id \in Int /\ t.id \in Int /\ Missing \notin Int
        /\ r.key \in Int \cup {Missing} /\ s.key \in Int \cup {Missing}
        /\ t.key \in Int \cup {Missing}
        /\ r # s => r.id # s.id \/ r.key # s.key
    <3>1. r \in Row /\ s \in Row /\ t \in Row
      OBVIOUS
    <3>2. r # s => r.id # s.id \/ r.key # s.key
      BY <3>1 DEF Row
    <3> QED BY <3>1, <3>2, PagingAssumption DEF Row, PagingAssumption
  <2>2. \A x, y \in S : <<x, y>> \in ArrayRel <=> ArrayBefore(x, y)
    BY DEF ArrayRel
  <2>3. /\ ~ ArrayBefore(r, r)
        /\ ArrayBefore(r, s) /\ ArrayBefore(s, t) => ArrayBefore(r, t)
        /\ r # s => ArrayBefore(r, s) \/ ArrayBefore(s, r)
    <3>1. CASE order = "desc"
      BY <2>1, <3>1 DEF ArrayBefore, KeyBefore, Less
    <3>2. CASE order # "desc"
      BY <2>1, <3>2 DEF ArrayBefore, KeyBefore, Less
    <3> QED BY <3>1, <3>2
  <2> QED BY <2>2, <2>3
<1> QED BY <1>1 DEF StrictOrder

LEMMA AtMostOne ==
  ASSUME NEW D, \A x, y \in D : x = y
  PROVE  IsFiniteSet(D) /\ Cardinality(D) \in Nat /\ Cardinality(D) <= 1
<1>1. CASE D = {}
  BY <1>1, FS_EmptySet
<1>2. ASSUME NEW x \in D PROVE IsFiniteSet(D) /\ Cardinality(D) = 1
  <2>1. D = {x}
    OBVIOUS
  <2> QED BY <2>1, FS_Singleton
<1> QED BY <1>1, <1>2

(* One element more or less changes a place by one at most. *)
LEMMA PlacesMoveByOne ==
  ASSUME NEW C, NEW S, IsFiniteSet(S), NEW z, C \subseteq S, S \subseteq C \cup {z}, NEW R, NEW x
  PROVE  /\ Cardinality(Preds(R, C, x)) \in Nat /\ Cardinality(Preds(R, S, x)) \in Nat
         /\ Cardinality(Preds(R, C, x)) <= Cardinality(Preds(R, S, x))
         /\ Cardinality(Preds(R, S, x)) <= Cardinality(Preds(R, C, x)) + 1
<1> DEFINE c == Preds(R, C, x)
           s == Preds(R, S, x)
<1>1. c \subseteq s /\ s \subseteq c \cup {z} /\ s \in SUBSET S
  BY DEF Preds
<1> HIDE DEF c, s
<1>2. IsFiniteSet(s) /\ IsFiniteSet(c)
  BY <1>1, FS_Subset
<1>3. Cardinality(c) \in Nat /\ Cardinality(s) \in Nat /\ Cardinality(c) <= Cardinality(s)
  BY <1>1, <1>2, FS_Subset, FS_CardinalityType
<1>4. /\ IsFiniteSet(c \cup {z})
      /\ Cardinality(c \cup {z}) = IF z \in c THEN Cardinality(c) ELSE Cardinality(c) + 1
  BY <1>2, FS_AddElement
<1>5. Cardinality(s) <= Cardinality(c \cup {z})
  BY <1>1, <1>4, FS_Subset
<1>6. Cardinality(s) <= Cardinality(c) + 1
  BY <1>3, <1>4, <1>5
<1> QED BY <1>3, <1>6 DEF c, s

(* When S becomes T by changing one element, at most one of the others      *)
(* crosses place n.                                                        *)
LEMMA OneCrosses ==
  ASSUME NEW C, NEW S, NEW T, IsFiniteSet(S), IsFiniteSet(T), NEW z, NEW w,
         C \subseteq S, S \subseteq C \cup {z}, C \subseteq T, T \subseteq C \cup {w},
         NEW R, StrictOrder(R, C), NEW n \in Int, NEW x \in C, NEW y \in C,
         ~ (Cardinality(Preds(R, S, x)) < n <=> Cardinality(Preds(R, T, x)) < n),
         ~ (Cardinality(Preds(R, S, y)) < n <=> Cardinality(Preds(R, T, y)) < n)
  PROVE  x = y
<1>1. ASSUME NEW v \in C,
             ~ (Cardinality(Preds(R, S, v)) < n <=> Cardinality(Preds(R, T, v)) < n)
      PROVE  Cardinality(Preds(R, C, v)) = n - 1
  <2> DEFINE c == Cardinality(Preds(R, C, v))
             s == Cardinality(Preds(R, S, v))
             t == Cardinality(Preds(R, T, v))
  <2>1. /\ c \in Nat /\ s \in Nat /\ t \in Nat
        /\ c <= s /\ s <= c + 1 /\ c <= t /\ t <= c + 1
    BY PlacesMoveByOne
  <2> HIDE DEF c, s, t
  <2>2. ~ (s < n <=> t < n)
    BY <1>1 DEF s, t
  <2>3. c = n - 1
    BY <2>1, <2>2
  <2> QED BY <2>3 DEF c
<1>2. IsFiniteSet(C)
  BY FS_Subset
<1> SUFFICES ASSUME x # y PROVE FALSE
  OBVIOUS
<1>3. <<x, y>> \in R \/ <<y, x>> \in R
  BY DEF StrictOrder
<1>4. Cardinality(Preds(R, C, x)) = n - 1 /\ Cardinality(Preds(R, C, y)) = n - 1
  BY <1>1
<1> QED BY <1>2, <1>3, <1>4, PredsGrow

(* The rows of a list and their places. *)
LEMMA PlaceFacts ==
  ASSUME TypeOK, NEW i \in Narrowed
  PROVE  /\ RowOf(i) \in Rows /\ Rows \in SUBSET Row /\ IsFiniteSet(Rows)
         /\ Place(i) \in Nat /\ Cardinality(Rows) \in Nat /\ Place(i) < Cardinality(Rows)
         /\ Cardinality({s \in Rows : ArrayBefore(s, RowOf(i))}) = Place(i)
<1>1. RowOf(i) \in Rows /\ Rows \in SUBSET Row /\ IsFiniteSet(Rows)
  BY RowsFacts DEF TypeOK, Rows, RowOf
<1> DEFINE before == Preds(ArrayRel, Rows, RowOf(i))
<1>2. before \in SUBSET Rows /\ RowOf(i) \notin before
  BY <1>1, ArrayIsOrdered DEF StrictOrder, Preds
<1>3. {s \in Rows : ArrayBefore(s, RowOf(i))} = before
  BY <1>1 DEF Preds, ArrayRel
<1> HIDE DEF before
<1>4. /\ IsFiniteSet(before) /\ Cardinality(before) <= Cardinality(Rows)
      /\ Cardinality(before) # Cardinality(Rows)
  BY <1>1, <1>2, FS_Subset
<1>5. Cardinality(before) \in Nat /\ Cardinality(Rows) \in Nat
  BY <1>1, <1>4, FS_CardinalityType
<1> QED BY <1>1, <1>3, <1>4, <1>5 DEF Place, before

LEMMA DriftedIsFinite ==
  ASSUME TypeOK
  PROVE  IsFiniteSet(Drifted) /\ Cardinality(Drifted) \in Nat
<1>1. Drifted \in SUBSET Ids
  BY DEF Drifted, TypeOK, Narrowed
<1> QED BY <1>1, PagingAssumption, FS_Subset, FS_CardinalityType

(* When there is no next page, all rows are behind the client. *)
LEMMA LastPageCoversAll ==
  ASSUME NEW n \in Nat, NEW N \in Nat, NEW L \in Nat \ {0},
         ~ (n < (N + L - 1) \div L)
  PROVE  N <= n * L
<1> DEFINE a == (N + L - 1) \div L
<1>1. a \in Int /\ a <= n
  OBVIOUS
<1>2. N + L - 1 < (a + 1) * L
  OBVIOUS
<1>3. (a + 1) * L = a * L + L
  OBVIOUS
<1>4. a * L <= n * L
  <2>1. n - a \in Nat /\ n = a + (n - a)
    BY <1>1
  <2> QED BY <1>1, <2>1
<1> QED BY <1>1, <1>2, <1>3, <1>4

LEMMA OffsetPageKeepsDrift ==
  ASSUME TypeOK, WalkInv, DriftInv, OffsetPage
  PROVE  DriftInv'
<1>1. /\ mode = "offset" /\ mode' = mode /\ number' = number + 1 /\ page' = Slice(number')
      /\ walk \in {"none", "forward"}
      /\ walk' = IF number' < TotalPages THEN "forward" ELSE "done"
      /\ seen' = [i \in Ids |-> seen[i] + Count(page')[i]]
      /\ steady' = (IF walk = "none" THEN Narrowed ELSE steady)
      /\ rows' = rows /\ changes' = changes /\ order' = order
  BY DEF OffsetPage, data
<1>2. /\ Limit \in Nat \ {0} /\ number \in Nat /\ changes \in Nat /\ seen \in [Ids -> Nat]
  BY PagingAssumption DEF TypeOK, PagingAssumption
<1>3. steady' \subseteq Narrowed /\ Narrowed \subseteq Ids
  BY <1>1 DEF TypeOK, Narrowed
<1>4. UNCHANGED <<Rows, ArrayRel>> /\ \A i \in Ids : RowOf(i)' = RowOf(i) /\ Place(i)' = Place(i)
  <2>1. UNCHANGED <<Rows, ArrayRel>>
    BY <1>1 DEF Rows, Narrowed, Searched, Filtered, InRange, ArrayRel, ArrayBefore, KeyBefore, Less
  <2>2. \A i \in Ids : RowOf(i)' = RowOf(i)
    BY <1>1 DEF RowOf
  <2> QED BY <2>1, <2>2 DEF Place, Preds
<1> DEFINE from == number * Limit
           to == number' * Limit
<1>5. from \in Nat /\ to \in Nat /\ to = from + Limit /\ (number' - 1) * Limit = from
  BY <1>1, <1>2
<1>6. ASSUME NEW i \in Narrowed
      PROVE  /\ seen'[i] = seen[i] + (IF Place(i) \in from..(to - 1) THEN 1 ELSE 0)
             /\ walk' = "done" => Place(i) < to
             /\ Place(i) \in Nat /\ seen[i] \in Nat
  <2>1. /\ RowOf(i) \in Rows /\ Rows \in SUBSET Row /\ Place(i) \in Nat
        /\ Cardinality(Rows) \in Nat /\ Place(i) < Cardinality(Rows)
        /\ Cardinality({s \in Rows : ArrayBefore(s, RowOf(i))}) = Place(i)
    BY PlaceFacts
  <2>2. RowOf(i) \in page' <=> Place(i) \in from..(to - 1)
    BY <1>1, <1>5, <2>1 DEF Slice
  <2>3. Count(page')[i] = IF RowOf(i) \in page' THEN 1 ELSE 0
    BY <1>1, <1>3, CountFacts DEF Slice
  <2>4. walk' = "done" => Cardinality(Rows) <= to
    <3> SUFFICES ASSUME ~ (number' < TotalPages) PROVE Cardinality(Rows) <= to
      BY <1>1
    <3> DEFINE N == Cardinality(Rows)
               n == number'
    <3>1. n \in Nat /\ N \in Nat /\ ~ (n < (N + Limit - 1) \div Limit)
      BY <1>1, <1>2, <2>1 DEF TotalPages
    <3> HIDE DEF N, n
    <3>2. N <= n * Limit
      BY <1>2, <3>1, LastPageCoversAll
    <3> QED BY <3>2 DEF N, n
  <2>5. walk' = "done" => Place(i) < to
    BY <1>5, <2>1, <2>4
  <2> QED BY <1>1, <1>2, <1>3, <2>1, <2>2, <2>3, <2>5
<1>7. ASSUME NEW i \in steady'
      PROVE  /\ i \in Narrowed /\ i \in Ids
             /\ i \in Drifted' <=> seen'[i] # IF walk' = "done" \/ Place(i) < to THEN 1 ELSE 0
  BY <1>3, <1>4, <1>7 DEF Drifted, Behind
<1> HIDE DEF from, to
<1>8. CASE walk = "none"
  <2>1. number = 0 /\ \A i \in Ids : seen[i] = 0
    BY <1>1, <1>8 DEF DriftInv
  <2>2. from = 0
    BY <1>2, <2>1 DEF from
  <2>3. ASSUME NEW i \in steady' PROVE i \notin Drifted'
    BY <1>5, <1>6, <1>7, <2>1, <2>2
  <2>4. Drifted' = {}
    BY <2>3 DEF Drifted
  <2> QED BY <1>1, <1>2, <2>4, FS_EmptySet DEF DriftInv
<1>9. CASE walk = "forward"
  <2>1. steady' = steady
    BY <1>1, <1>9
  <2>2. ASSUME NEW i \in steady'
        PROVE  i \in Drifted' <=> i \in Drifted
    <3>1. i \in Drifted <=> seen[i] # IF Place(i) < from THEN 1 ELSE 0
      BY <1>9, <2>1 DEF Drifted, Behind, from
    <3> QED BY <1>2, <1>5, <1>6, <1>7, <3>1
  <2>3. Drifted' = Drifted
    BY <2>1, <2>2 DEF Drifted
  <2> QED BY <1>1, <1>9, <2>3 DEF DriftInv
<1> QED BY <1>1, <1>8, <1>9

(* A change leaves all rows but one as they were. *)
LEMMA ChangeLeavesOthers ==
  ASSUME TypeOK, NEW id \in Ids,
         Delete(id) \/ \E x \in Stored : Insert(id, x) \/ Update(id, x)
  PROVE  LET C == {r \in Rows : r.id # id}
         IN  /\ C \subseteq Rows' /\ Rows \subseteq C \cup {RowOf(id)}
             /\ Rows' \subseteq C \cup {RowOf(id)'}
             /\ \A i \in steady' : i # id => RowOf(i)' = RowOf(i) /\ RowOf(i) \in C
<1>1. /\ DOMAIN rows' \cup {id} = DOMAIN rows \cup {id}
      /\ \A i \in DOMAIN rows : i # id => i \in DOMAIN rows' /\ rows'[i] = rows[i]
      /\ steady' \subseteq steady
  BY DEF Delete, Insert, Update, TypeOK
<1>2. \A i \in DOMAIN rows : i # id => (i \in Narrowed' <=> i \in Narrowed)
  BY <1>1 DEF Narrowed, Searched, Filtered, InRange
<1>3. Narrowed \subseteq DOMAIN rows /\ Narrowed' \subseteq DOMAIN rows' /\ steady \subseteq Narrowed
  BY DEF Narrowed, TypeOK
<1>4. /\ Rows = {RowOf(i) : i \in Narrowed} /\ Rows' = {RowOf(i)' : i \in Narrowed'}
      /\ \A i \in Ids : RowOf(i).id = i /\ RowOf(i)'.id = i
      /\ \A i \in DOMAIN rows : i # id => RowOf(i)' = RowOf(i)
  BY <1>1 DEF Rows, RowOf
<1> DEFINE C == {r \in Rows : r.id # id}
<1>5. \A i \in DOMAIN rows \cup DOMAIN rows' : i \in Ids
  BY <1>1 DEF TypeOK
<1>6. ASSUME NEW r \in C PROVE r \in Rows'
  <2>1. PICK i \in Narrowed : r = RowOf(i)
    BY <1>4
  <2>2. i \in DOMAIN rows /\ i # id
    BY <1>3, <1>4, <1>5, <2>1
  <2>3. i \in Narrowed' /\ RowOf(i)' = r
    BY <1>2, <1>4, <2>1, <2>2
  <2> QED BY <1>4, <2>3
<1>7. ASSUME NEW r \in Rows PROVE r \in C \cup {RowOf(id)}
  <2>1. PICK i \in Narrowed : r = RowOf(i)
    BY <1>4
  <2> QED BY <1>3, <1>4, <1>5, <2>1
<1>8. ASSUME NEW r \in Rows' PROVE r \in C \cup {RowOf(id)'}
  <2>1. PICK i \in Narrowed' : r = RowOf(i)'
    BY <1>4
  <2>2. CASE i = id
    BY <2>1, <2>2
  <2>3. CASE i # id
    <3>1. i \in DOMAIN rows /\ i \in Ids
      BY <1>1, <1>3, <1>5, <2>3
    <3>2. i \in Narrowed /\ r = RowOf(i) /\ r.id = i
      BY <1>2, <1>4, <2>1, <2>3, <3>1
    <3> QED BY <1>4, <2>3, <3>2
  <2> QED BY <2>2, <2>3
<1>9. ASSUME NEW i \in steady', i # id
      PROVE  RowOf(i)' = RowOf(i) /\ RowOf(i) \in C
  <2>1. i \in Narrowed /\ i \in DOMAIN rows /\ i \in Ids
    BY <1>1, <1>3, <1>5
  <2> QED BY <1>4, <1>9, <2>1
<1> QED BY <1>6, <1>7, <1>8, <1>9

LEMMA ChangeKeepsDrift ==
  ASSUME TypeOK, TypeOK', WalkInv, DriftInv, NEW id \in Ids,
         Delete(id) \/ \E x \in Stored : Insert(id, x) \/ Update(id, x)
  PROVE  DriftInv'
<1> SUFFICES ASSUME mode = "offset" PROVE DriftInv'
  BY DEF DriftInv, Delete, Insert, Update
<1>1. /\ changes' = changes + 1 /\ walk # "none" /\ steady' \subseteq steady
      /\ UNCHANGED <<mode, order, number, walk, seen>>
  BY DEF Delete, Insert, Update, Change
<1>2. id \notin steady'
  BY DEF Delete, Insert, Update, TypeOK, Narrowed
<1>3. /\ changes \in Nat /\ Limit \in Nat /\ number * Limit \in Int
      /\ IsFiniteSet(Drifted) /\ Cardinality(Drifted) \in Nat
  BY DriftedIsFinite, PagingAssumption DEF TypeOK, PagingAssumption
<1>4. walk \in {"forward", "done"} /\ Cardinality(Drifted) <= changes
  BY <1>1 DEF DriftInv
<1>5. CASE walk = "done"
  <2>1. Drifted' \in SUBSET Drifted
    BY <1>1, <1>5 DEF Drifted
  <2>2. Cardinality(Drifted') <= Cardinality(Drifted) /\ Cardinality(Drifted') \in Nat
    BY <1>3, <2>1, FS_Subset, FS_CardinalityType
  <2>3. Cardinality(Drifted') <= changes'
    BY <1>1, <1>3, <1>4, <2>2
  <2> QED BY <1>1, <1>5, <2>3 DEF DriftInv
<1>6. CASE walk = "forward"
  <2> DEFINE C == {r \in Rows : r.id # id}
             S == Rows
             T == Rows'
             z == RowOf(id)
             w == RowOf(id)'
             n == number * Limit
             crossed == {i \in steady' : ~ (Behind(i) <=> Behind(i)')}
  <2>1. /\ C \subseteq S /\ S \subseteq C \cup {z} /\ C \subseteq T /\ T \subseteq C \cup {w}
        /\ \A i \in steady' : RowOf(i)' = RowOf(i) /\ RowOf(i) \in C
    BY <1>2, ChangeLeavesOthers
  <2>2. IsFiniteSet(S) /\ S \in SUBSET Row
    BY RowsFacts DEF TypeOK
  <2>3. IsFiniteSet(T)
    <3>1. T \in SUBSET (S \cup {w})
      BY <2>1
    <3> QED BY <2>2, <3>1, FS_AddElement, FS_Subset
  <2>4. StrictOrder(ArrayRel, C)
    BY <2>2, ArrayIsOrdered
  <2>5. ArrayRel' = ArrayRel /\ n' = n /\ n \in Int
    BY <1>1, <1>3 DEF ArrayRel, ArrayBefore, KeyBefore, Less
  <2>6. \A i \in steady' :
          /\ Behind(i) <=> Cardinality(Preds(ArrayRel, S, RowOf(i))) < n
          /\ Behind(i)' <=> Cardinality(Preds(ArrayRel, T, RowOf(i))) < n
    BY <2>1, <2>5 DEF Behind, Place, Preds
  <2> HIDE DEF C, S, T, z, w, n
  <2>7. ASSUME NEW i \in crossed, NEW j \in crossed PROVE i = j
    <3>1. /\ RowOf(i) \in C /\ RowOf(j) \in C
          /\ ~ (Cardinality(Preds(ArrayRel, S, RowOf(i))) < n
                   <=> Cardinality(Preds(ArrayRel, T, RowOf(i))) < n)
          /\ ~ (Cardinality(Preds(ArrayRel, S, RowOf(j))) < n
                   <=> Cardinality(Preds(ArrayRel, T, RowOf(j))) < n)
      BY <2>1, <2>6
    <3>2. RowOf(i) = RowOf(j)
      <4> DEFINE x == RowOf(i)
                 y == RowOf(j)
                 R == ArrayRel
      <4>1. /\ IsFiniteSet(S) /\ IsFiniteSet(T) /\ StrictOrder(R, C) /\ n \in Int
            /\ C \subseteq S /\ S \subseteq C \cup {z} /\ C \subseteq T /\ T \subseteq C \cup {w}
            /\ x \in C /\ y \in C
            /\ ~ (Cardinality(Preds(R, S, x)) < n <=> Cardinality(Preds(R, T, x)) < n)
            /\ ~ (Cardinality(Preds(R, S, y)) < n <=> Cardinality(Preds(R, T, y)) < n)
        BY <2>1, <2>2, <2>3, <2>4, <2>5, <3>1
      <4> HIDE DEF x, y, R
      <4>2. x = y
        BY ONLY <4>1, OneCrosses
      <4> QED BY <4>2 DEF x, y
    <3> QED BY <3>2 DEF RowOf
  <2>8. Drifted' \subseteq Drifted \cup crossed
    BY <1>1, <1>6 DEF Drifted
  <2> HIDE DEF crossed
  <2>9. IsFiniteSet(crossed) /\ Cardinality(crossed) \in Nat /\ Cardinality(crossed) <= 1
    BY <2>7, AtMostOne
  <2>10. /\ IsFiniteSet(Drifted \cup crossed)
         /\ Cardinality(Drifted \cup crossed) <= Cardinality(Drifted) + 1
         /\ Cardinality(Drifted \cup crossed) \in Nat
    <3>1. /\ IsFiniteSet(Drifted \cup crossed) /\ IsFiniteSet(Drifted \cap crossed)
          /\ Cardinality(Drifted \cup crossed)
               = Cardinality(Drifted) + Cardinality(crossed) - Cardinality(Drifted \cap crossed)
      BY <1>3, <2>9, FS_Union, FS_Intersection
    <3>2. Cardinality(Drifted \cap crossed) \in Nat /\ Cardinality(Drifted \cup crossed) \in Nat
      BY <3>1, FS_CardinalityType
    <3> QED BY <1>3, <2>9, <3>1, <3>2
  <2>11. Cardinality(Drifted') <= Cardinality(Drifted \cup crossed) /\ Cardinality(Drifted') \in Nat
    BY <2>8, <2>10, FS_Subset, FS_CardinalityType
  <2>12. Cardinality(Drifted') <= changes'
    BY <1>1, <1>3, <1>4, <2>10, <2>11
  <2> QED BY <1>1, <1>4, <2>12 DEF DriftInv
<1> QED BY <1>4, <1>5, <1>6

LEMMA NextKeepsDrift == IndInv /\ IndInv' /\ DriftInv /\ [Next]_vars => DriftInv'
<1> SUFFICES ASSUME IndInv, IndInv', DriftInv, [Next]_vars PROVE DriftInv'
  OBVIOUS
<1>1. TypeOK /\ TypeOK' /\ WalkInv
  BY DEF IndInv
<1>2. CASE UNCHANGED vars
  <2>1. Drifted' = Drifted
    <3>1. \A i \in steady : Behind(i)' <=> Behind(i)
      BY <1>2 DEF vars, data, Behind, Place, Preds, Rows, RowOf, Narrowed, Searched, Filtered, InRange,
                  ArrayRel, ArrayBefore, KeyBefore, Less
    <3> QED BY <1>2, <3>1 DEF vars, data, Drifted
  <2> QED BY <1>2, <2>1 DEF vars, data, DriftInv
<1>3. CASE FirstPage \/ NextPage \/ PrevPage
  BY <1>3 DEF FirstPage, NextPage, PrevPage, DriftInv
<1>4. CASE OffsetPage
  BY <1>1, <1>4, OffsetPageKeepsDrift
<1>5. CASE Restart
  <2>1. Drifted' = {} /\ changes' = 0
    BY <1>5 DEF Restart, Drifted
  <2>2. Cardinality(Drifted') <= changes'
    BY <2>1, FS_EmptySet
  <2> QED BY <1>5, <2>2 DEF Restart, DriftInv
<1>6. CASE \E id \in Ids : Delete(id) \/ \E x \in Stored : Insert(id, x) \/ Update(id, x)
  BY <1>1, <1>6, ChangeKeepsDrift
<1> QED BY <1>2, <1>3, <1>4, <1>5, <1>6 DEF Next

(* A walk by offset goes wrong by no more rows than there were changes, for  *)
(* any list, page size and number of changes.                              *)
THEOREM DriftIsBounded == Spec => []OffsetWalksDriftByChanges
<1>1. Init => DriftInv
  <2> SUFFICES ASSUME Init PROVE DriftInv
    OBVIOUS
  <2>1. Drifted = {} /\ changes = 0
    BY DEF Init, Drifted
  <2>2. Cardinality(Drifted) <= changes
    BY <2>1, FS_EmptySet
  <2> QED BY <2>2 DEF Init, DriftInv
<1>2. IndInv /\ DriftInv => OffsetWalksDriftByChanges
  <2> SUFFICES ASSUME IndInv, DriftInv, mode = "offset"
               PROVE  LET again == {i \in steady : seen[i] > 1}
                          skipped == {i \in steady : walk = "done" /\ seen[i] = 0}
                      IN  Cardinality(again) + Cardinality(skipped) <= changes
    BY DEF OffsetWalksDriftByChanges
  <2> DEFINE again == {i \in steady : seen[i] > 1}
             skipped == {i \in steady : walk = "done" /\ seen[i] = 0}
  <2>1. /\ IsFiniteSet(Drifted) /\ Cardinality(Drifted) \in Nat /\ Cardinality(Drifted) <= changes
        /\ changes \in Nat
    BY DriftedIsFinite DEF IndInv, TypeOK, DriftInv
  <2>2. again \cup skipped \subseteq Drifted /\ again \cap skipped = {}
    BY DEF Drifted
  <2> HIDE DEF again, skipped
  <2>3. IsFiniteSet(again) /\ IsFiniteSet(skipped) /\ IsFiniteSet(again \cup skipped)
    BY <2>1, <2>2, FS_Subset
  <2>4. Cardinality(again \cup skipped)
          = Cardinality(again) + Cardinality(skipped) - Cardinality(again \cap skipped)
    BY <2>3, FS_Union
  <2>5. Cardinality(again) \in Nat /\ Cardinality(skipped) \in Nat
        /\ Cardinality(again \cup skipped) \in Nat /\ Cardinality(again \cap skipped) = 0
    BY <2>2, <2>3, FS_CardinalityType, FS_EmptySet
  <2>6. Cardinality(again \cup skipped) <= Cardinality(Drifted)
    BY <2>1, <2>2, FS_Subset
  <2>7. Cardinality(again) + Cardinality(skipped) <= changes
    BY <2>1, <2>4, <2>5, <2>6
  <2> QED BY <2>7 DEF again, skipped
<1> QED BY <1>1, <1>2, NextKeepsDrift, IndInvHolds, PTL DEF Spec
=============================================================================
