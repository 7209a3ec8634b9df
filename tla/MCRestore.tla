------------------------------- MODULE MCRestore -------------------------------
(* Small instances of Restore for TLC. *)
EXTENDS Restore, TLC

CONSTANTS r1, r2, f1, f2
=============================================================================
