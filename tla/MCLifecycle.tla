---------------------------- MODULE MCLifecycle ----------------------------
(***************************************************************************)
(* Lifecycle with the default bounds (config/index.js:137, queue.js:19,    *)
(* config/tracing.js:33), and two shutdowns, which are alike.              *)
(***************************************************************************)
EXTENDS Lifecycle, TLC

CONSTANTS first, second

ShutdownSymmetry == Permutations({first, second})
=============================================================================
