----------------------------- MODULE MCAnalytics -----------------------------
(* Model-checks Analytics on a store with room for two readings. *)
EXTENDS Analytics, TLC

WindowsValue == {<<0, 1>>}
ClientSymmetry == Permutations(Clients)
=============================================================================
