---------------------------- MODULE MCLifecycle ----------------------------
(* Instances of Lifecycle for TLC. *)
EXTENDS Lifecycle

CONSTANTS a1, a2, a3, k1, k2
=============================================================================
