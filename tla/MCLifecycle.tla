------------------------------ MODULE MCLifecycle ------------------------------
(* Small instances of Lifecycle for TLC. *)
EXTENDS Lifecycle

CONSTANTS q1, q2, q3, b1, b2
=============================================================================
