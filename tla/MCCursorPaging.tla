--------------------------- MODULE MCCursorPaging ---------------------------
(* Model-checks CursorPaging: more rows than a page holds, two of them with *)
(* the same key, and rows without a key.  One kind of rows is what the       *)
(* client asks for, the other is not: it lacks a date.                      *)
EXTENDS CursorPaging

MCFields ==
  {[words |-> {"meter"}, values |-> [location |-> "here", type |-> t], createdAt |-> d] :
     t \in {"a"}, d \in {2, Missing}}
MCQuery ==
  [q |-> "meter", filters |-> [location |-> "here", type |-> "ignored"],
   createdAfter |-> 1, createdBefore |-> 2]
=============================================================================
