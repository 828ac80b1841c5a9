------------------------------ MODULE MCBilling ------------------------------
(* Model-checks Billing over two months of two days. *)
EXTENDS Billing
=============================================================================
