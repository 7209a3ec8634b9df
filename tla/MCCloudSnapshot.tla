---------------------------- MODULE MCCloudSnapshot ----------------------------
(* Small instances of CloudSnapshot for TLC. *)
EXTENDS CloudSnapshot, TLC

CONSTANTS t1, t2

TasksAlike == Permutations(Task)

\* Bound where an operator may cancel the same backup for ever: one task at most is touched.
FewTouched == Cardinality(touched) <= 1
=============================================================================
