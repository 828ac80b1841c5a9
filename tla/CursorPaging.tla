---------------------------- MODULE CursorPaging ----------------------------
(***************************************************************************)
(* List requests, paginateList() of src/src/utils/pagination.js, as a      *)
(* client walks through a list with them (the admin users and devices; the *)
(* raw readings by cursor alone) while rows are added, changed and removed. *)
(* The list is narrowed by search, filters and a range of dates, and then  *)
(* cut in pages: by offset, or by the cursors of paginateByCursor().       *)
(*                                                                         *)
(* A row is its id, the value it is sorted by, a number or missing, and the *)
(* fields that narrowing looks at.  By cursor, ids are strings compared as  *)
(* text: "10" comes before "9", so a new row may get any place among the   *)
(* old ones.  By offset they are compared nowhere; there an id stands for   *)
(* the place of its row in the array, where new rows come last.            *)
(***************************************************************************)
EXTENDS Integers, FiniteSets

CONSTANTS
  Ids,      \* ids, as numbers in the order of their text
  Keys,     \* values of the sort field
  Missing,  \* no value: null or undefined
  Fields,   \* other fields: words in the searchable ones, values to filter, date
  Query,    \* what the client asks for: q, filters, createdAfter, createdBefore
  AllowedFilters, \* the fields an endpoint lets clients filter by
  Limit,    \* rows of a page
  MaxChanges, \* bound: changes of the list during the walk
  None      \* no cursor, no parameter

ASSUME PagingAssumption ==
  /\ Ids \subseteq Int /\ IsFiniteSet(Ids)
  /\ Keys \subseteq Int /\ Missing \notin Int
  /\ Limit \in Nat \ {0} /\ MaxChanges \in Nat
  /\ None \notin [id : Ids, key : Keys \cup {Missing}]

VARIABLES
  rows,    \* the list: id -> sort value and fields
  fresh,   \* ids not given yet
  changes, \* how often the list changed since the walk began
  mode,    \* the parameter paginate: "offset" or "cursor"
  order,   \* sortOrder of the walk, which its cursors carry
  number,  \* the number of the last page (offset)
  page,    \* the last page the client got
  next,    \* its nextCursor: the position of its last row
  prev,    \* its prevCursor: the position of its first row
  walk,    \* "none", "forward", "done" (no next page) or "back"
  seen,    \* history: how often the forward walk returned each id
  steady   \* history: ids of rows that were there, unchanged, all along the walk

data == <<rows, fresh, changes>>
vars == <<data, mode, order, number, page, next, prev, walk, seen, steady>>

Stored == [key : Keys \cup {Missing}, fields : Fields]
Row == [id : Ids, key : Keys \cup {Missing}]

-----------------------------------------------------------------------------
(* Narrowing a list, as both modes do. *)

(* searchData() *)
Searched(x) == Query.q = None \/ Query.q \in x.fields.words

(* filterData(): filters of other fields are ignored. *)
Filtered(x) ==
  \A f \in DOMAIN Query.filters \cap AllowedFilters : x.fields.values[f] = Query.filters[f]

(* filterByDateRange(): both ends belong to it, rows without a date do not. *)
InRange(x) ==
  Query.createdAfter # None \/ Query.createdBefore # None =>
    /\ x.fields.createdAt # Missing
    /\ Query.createdAfter # None => x.fields.createdAt >= Query.createdAfter
    /\ Query.createdBefore # None => x.fields.createdAt <= Query.createdBefore

Narrowed == {i \in DOMAIN rows : Searched(rows[i]) /\ Filtered(rows[i]) /\ InRange(rows[i])}
Rows == {[id |-> i, key |-> rows[i].key] : i \in Narrowed}

-----------------------------------------------------------------------------
(* The order: by key, missing keys last in both directions; then by id. *)

(* Keys are integers, as compareValues() orders numbers and dates.  (Two     *)
(* texts it compares as dates when both parse as one, and as texts if not:  *)
(* a column that mixes them need not be totally ordered.)                  *)
Less(x, y) == IF order = "desc" THEN y < x ELSE x < y

KeyBefore(r, s) ==
  \/ r.key # Missing /\ s.key = Missing
  \/ r.key # Missing /\ s.key # Missing /\ Less(r.key, s.key)

Before(r, s) == KeyBefore(r, s) \/ (r.key = s.key /\ Less(r.id, s.id))

(* Mutants of Rest: the cursor's key alone is compared; its row comes again. *)
RestByKey(cursor) == {r \in Rows : cursor = None \/ KeyBefore(cursor, r)}
RestFromCursor(cursor) == {r \in Rows : cursor = None \/ ~Before(r, cursor)}

(* The rows after a cursor (all without one), and those ahead of it.  The   *)
(* row of a cursor need not exist any more.                                *)
Rest(cursor) == {r \in Rows : cursor = None \/ Before(cursor, r)}
Ahead(cursor) == {r \in Rows : Before(r, cursor)}

(* The first and the last Limit rows of S. *)
First(S) == {r \in S : Cardinality({s \in S : Before(s, r)}) < Limit}

(* Mutant of Last: the start of the list, instead of what is adjacent. *)
LastIsFirst(S) == First(S)
Last(S) == {r \in S : Cardinality({s \in S : Before(r, s)}) < Limit}

(* The page S and its cursors, minted only for what has rows beyond it. *)
Serve(S) ==
  /\ page' = S
  /\ next' \in {r \in S : \A s \in S \ {r} : Before(s, r)} \cup {None}
  /\ prev' \in {r \in S : \A s \in S \ {r} : Before(r, s)} \cup {None}
  /\ next' # None <=> S # {} /\ \E q \in Rows \ S : \A s \in S : Before(s, q)
  /\ prev' # None <=> S # {} /\ \E q \in Rows \ S : \A s \in S : Before(q, s)

Count(S) == [i \in Ids |-> IF \E r \in S : r.id = i THEN 1 ELSE 0]

-----------------------------------------------------------------------------
(* Pages by offset: sorted by key alone, rows of one key as in the array. *)
ArrayBefore(r, s) == KeyBefore(r, s) \/ (~KeyBefore(s, r) /\ r.id < s.id)

(* paginate() *)
Slice(n) ==
  {r \in Rows : Cardinality({s \in Rows : ArrayBefore(s, r)})
                  \in ((n - 1) * Limit)..(n * Limit - 1)}

(* Mutant of TotalPages: the last page, when it is not full, is left out. *)
TotalPagesRoundedDown == Cardinality(Rows) \div Limit

(* buildPaginationMeta() *)
TotalPages == (Cardinality(Rows) + Limit - 1) \div Limit

-----------------------------------------------------------------------------
(* A request without a cursor starts a walk. *)
FirstPage ==
  /\ mode = "cursor" /\ walk = "none"
  /\ Serve(First(Rest(None)))
  /\ walk' = IF next' = None THEN "done" ELSE "forward"
  /\ seen' = Count(page') /\ steady' = Narrowed
  /\ UNCHANGED <<data, mode, order, number>>

(* Mutant of NextPage: a cursor is served whatever sort it was minted for. *)
NextPageOfAnySort ==
  /\ mode = "cursor" /\ walk = "forward"
  /\ order' \in {"asc", "desc"}
  /\ Serve(First(Rest(next)))
  /\ walk' = IF next' = None THEN "done" ELSE "forward"
  /\ seen' = [i \in Ids |-> seen[i] + Count(page')[i]]
  /\ UNCHANGED <<data, mode, number, steady>>

(* The client sends nextCursor back, with the sort it was minted for. *)
NextPage ==
  /\ mode = "cursor" /\ walk = "forward"
  /\ Serve(First(Rest(next)))
  /\ walk' = IF next' = None THEN "done" ELSE "forward"
  /\ seen' = [i \in Ids |-> seen[i] + Count(page')[i]]
  /\ UNCHANGED <<data, mode, order, number, steady>>

(* It sends prevCursor as `before`: it turns round. *)
PrevPage ==
  /\ mode = "cursor" /\ prev # None
  /\ Serve(Last(Ahead(prev)))
  /\ walk' = "back"
  /\ UNCHANGED <<data, mode, order, number, seen, steady>>

(* It asks for page 1, or for the page after its last one. *)
OffsetPage ==
  /\ mode = "offset" /\ walk \in {"none", "forward"}
  /\ number' = number + 1
  /\ page' = Slice(number')
  /\ walk' = IF number' < TotalPages THEN "forward" ELSE "done"
  /\ seen' = [i \in Ids |-> seen[i] + Count(page')[i]]
  /\ steady' = IF walk = "none" THEN Narrowed ELSE steady
  /\ UNCHANGED <<data, mode, order, next, prev>>

(* It changes the sort order: a cursor of another sort is answered with 400, *)
(* and the walk has to start again.                                         *)
Restart ==
  /\ walk # "none"
  /\ order' \in {"asc", "desc"} \ {order}
  /\ changes' = 0
  /\ number' = 0 /\ page' = {} /\ next' = None /\ prev' = None /\ walk' = "none"
  /\ seen' = [i \in Ids |-> 0] /\ steady' = {}
  /\ UNCHANGED <<rows, fresh, mode>>

(* During a walk rows come, change and go; before it, Init has them all. *)
Change == walk # "none" /\ changes < MaxChanges /\ changes' = changes + 1

Insert(id, x) ==
  /\ Change
  /\ id \in fresh /\ fresh' = fresh \ {id}
  /\ mode = "offset" => \A i \in Ids \ fresh : i < id
  /\ rows' = [i \in DOMAIN rows \cup {id} |-> IF i = id THEN x ELSE rows[i]]
  /\ UNCHANGED <<mode, order, number, page, next, prev, walk, seen, steady>>

Update(id, x) ==
  /\ Change
  /\ id \in DOMAIN rows /\ rows' = [rows EXCEPT ![id] = x]
  /\ steady' = steady \ {id}
  /\ UNCHANGED <<fresh, mode, order, number, page, next, prev, walk, seen>>

Delete(id) ==
  /\ Change
  /\ id \in DOMAIN rows /\ rows' = [i \in DOMAIN rows \ {id} |-> rows[i]]
  /\ steady' = steady \ {id}
  /\ UNCHANGED <<fresh, mode, order, number, page, next, prev, walk, seen>>

-----------------------------------------------------------------------------
Init ==
  /\ \E S \in SUBSET Ids : rows \in [S -> Stored] /\ fresh = Ids \ S
  /\ changes = 0
  /\ mode \in {"offset", "cursor"} /\ order \in {"asc", "desc"}
  /\ number = 0 /\ page = {} /\ next = None /\ prev = None /\ walk = "none"
  /\ seen = [i \in Ids |-> 0] /\ steady = {}

Next ==
  \/ FirstPage \/ NextPage \/ PrevPage \/ OffsetPage \/ Restart
  \/ \E id \in Ids : Delete(id) \/ \E x \in Stored : Insert(id, x) \/ Update(id, x)

Spec == Init /\ [][Next]_vars

-----------------------------------------------------------------------------
(* Every variable stays within the values the code can give it. *)
TypeOK ==
  /\ DOMAIN rows \subseteq Ids \ fresh /\ fresh \subseteq Ids
  /\ rows \in [DOMAIN rows -> Stored]
  /\ changes \in 0..MaxChanges
  /\ mode \in {"offset", "cursor"} /\ order \in {"asc", "desc"}
  /\ number \in Nat /\ walk \in {"none", "forward", "done", "back"}
  /\ page \subseteq Row /\ (mode = "cursor" => Cardinality(page) <= Limit)
  /\ next \in page \cup {None} /\ prev \in page \cup {None}
  /\ seen \in [Ids -> Nat] /\ steady \subseteq Narrowed

(* pagination.js:733-735: "inserts and deletes elsewhere in the data cannot  *)
(* make a client skip or repeat rows".  By cursor, a row that stays as it is *)
(* and is asked for, is returned at most once, and exactly once when the    *)
(* walk is through, however many rows share its key, and whatever becomes   *)
(* of the row of the cursor, be it that it is no longer asked for.          *)
SteadyRowsAreReturnedOnce ==
  mode = "cursor" => \A i \in steady : seen[i] <= 1 /\ (walk = "done" => seen[i] = 1)

(* The same before the end: what is missing so far is still to come. *)
SteadyRowsAreAhead ==
  mode = "cursor" /\ walk = "forward" =>
    \A i \in steady : seen[i] = 0 <=> Before(next, [id |-> i, key |-> rows[i].key])

(* "Stepping back lands adjacent to where the client already was": no row   *)
(* lies between the page before and the position the client came from.     *)
BackIsAdjacent ==
  [][walk' = "back" /\ page' # page =>
       \A q \in Ahead(prev) \ page' : \A r \in page' : Before(q, r)]_vars

(* By offset a walk is as exact as long as nothing changes, and else no      *)
(* change can cost the client more than one steady row: those it skipped or *)
(* got again are not more than the changes since the walk began.            *)
OffsetWalksDriftByChanges ==
  mode = "offset" =>
    LET again == {i \in steady : seen[i] > 1}
        skipped == {i \in steady : walk = "done" /\ seen[i] = 0}
    IN  Cardinality(again) + Cardinality(skipped) <= changes
=============================================================================
