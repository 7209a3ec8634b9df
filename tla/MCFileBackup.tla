----------------------------- MODULE MCFileBackup -----------------------------
(* Small instances of FileBackup for TLC. *)
EXTENDS FileBackup, TLC

CONSTANTS t1, t2, t3, r1, r2, r3, s1, s2

\* One message per task.
OneRunEach == r1 :> t1 @@ r2 :> t2 @@ r3 :> t3
OneTask == r1 :> t1
TwoTasks == r1 :> t1 @@ r2 :> t2

\* Two messages for one task; only an operator's retry sends the second.
OneTwice == r1 :> t1 @@ r3 :> t1

\* With OneRunEach and equal tasks, a renaming of the tasks that takes their runs along
\* leaves the behaviours as they are.
MoveRuns(p) == [r \in Run |-> CHOOSE q \in Run : TaskOf[q] = p[TaskOf[r]]]
TasksAlike == {p @@ MoveRuns(p) : p \in Permutations(Task)}
AllAlike == {p @@ q : p \in TasksAlike, q \in Permutations(Storage)}

\* Bound on the exploration: sweeps are pending for one task at a time.  A sweep reads and
\* writes nothing of another task's, so no order of two tasks' sweeps is worth a state.
OneTaskSwept == Cardinality({t \in Task : \E k \in SweepKind : sweeps[t][k] > 0}) <= 1

\* Bounds where an operator may cancel the same backup for ever: two sweeps of a kind are
\* pending, and one task at most is touched (nothing is promised once both are).
FewTouched ==
    /\ OneTaskSwept
    /\ \A t \in Task, k \in SweepKind : sweeps[t][k] <= 2
    /\ Cardinality(touched) <= 1

\* Bound where a backup dumps once and is never sent again: no second sweep of a kind is
\* queued while one is pending, as the second would find what the first one finds.
OneSweepEach == \A t \in Task, k \in SweepKind : sweeps[t][k] <= 1
=============================================================================
