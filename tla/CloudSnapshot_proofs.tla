--------------------------- MODULE CloudSnapshot_proofs ---------------------------
(***************************************************************************)
(* Proofs about CloudSnapshot, for any tasks, schedule, retention and      *)
(* retry limit, and for every choice of faults and operator actions.       *)
(***************************************************************************)
EXTENDS CloudSnapshot, FiniteSetTheorems, TLAPS

-----------------------------------------------------------------------------
(* Types.                                                                  *)

LEMMA InitTypeOK == Init => TypeOK
  <1> SUFFICES ASSUME Init PROVE TypeOK
    OBVIOUS
  <1>1. 0 \in Attempt
    BY CloudAssumption DEF Attempt
  <1>2. /\ node \in NodeStatus
        /\ run \in [Task -> RunState]
        /\ backup \in [Task -> BackupStatus]
        /\ poll \in [Task -> PollState]
    BY DEF Init, NodeStatus, RunState, BackupStatus, PollState
  <1>3. /\ attempt \in [Task -> Attempt]
        /\ born \in [Task -> Nat]
        /\ snap \in [Task -> [Attempt -> SnapState]]
    BY <1>1 DEF Init, SnapState
  <1>4. /\ action \in [Task -> SUBSET Attempt]
        /\ uid \in [Task -> SUBSET Attempt]
        /\ victims \in [Task -> SUBSET Task]
        /\ touched \in SUBSET Task
        /\ hit \in SUBSET Task
    BY DEF Init
  <1> QED BY <1>2, <1>3, <1>4 DEF TypeOK

\* The creation order counts rows, of which there are finitely many.
LEMMA RowsAreCounted == 1 + Cardinality({u \in Task : backup[u] # "none"}) \in Nat
  <1>1. IsFiniteSet({u \in Task : backup[u] # "none"})
    BY CloudAssumption, FS_Subset, {u \in Task : backup[u] # "none"} \subseteq Task
  <1> QED BY <1>1, FS_CardinalityType

LEMMA RetryTypes ==
    ASSUME TypeOK, NEW t \in Task, RetryOrGiveUp(t)
    PROVE  /\ run' \in [Task -> RunState]
           /\ backup' \in [Task -> BackupStatus]
           /\ attempt' \in [Task -> Attempt]
  <1>1. attempt[t] < MaxRetries => attempt[t] + 1 \in Attempt
    BY CloudAssumption DEF TypeOK, Attempt
  <1>2. attempt' \in [Task -> Attempt]
    BY <1>1 DEF TypeOK, RetryOrGiveUp
  <1>3. run' \in [Task -> RunState] /\ backup' \in [Task -> BackupStatus]
    BY DEF TypeOK, RetryOrGiveUp, Advance, SetRow, RunState, BackupStatus, ActiveStatus
  <1> QED BY <1>2, <1>3

LEMMA DeleteTypes ==
    ASSUME TypeOK, NEW u \in Task, SoftDelete(u)
    PROVE  backup' \in [Task -> BackupStatus] /\ snap' \in [Task -> [Attempt -> SnapState]]
  <1>1. backup' \in [Task -> BackupStatus]
    BY DEF TypeOK, SoftDelete, SetRow, BackupStatus
  <1>2. ASSUME NEW a \in Attempt, snap' = [snap EXCEPT ![u][a] = "deleted"]
        PROVE  snap' \in [Task -> [Attempt -> SnapState]]
    BY <1>2 DEF TypeOK, SnapState
  <1>3. (\E a \in Attempt : snap' = [snap EXCEPT ![u][a] = "deleted"]) \/ snap' = snap
    BY DEF TypeOK, SoftDelete
  <1> QED BY <1>1, <1>2, <1>3 DEF TypeOK

LEMMA StepTypeOK == TypeOK /\ [Next]_vars => TypeOK'
  <1> SUFFICES ASSUME TypeOK, [Next]_vars PROVE TypeOK'
    OBVIOUS
  <1> USE DEF Advance, SetRow, SetPoll, Disturb, Touch, row, history
  <1>1. ASSUME NEW t \in Task, \/ Send(t) \/ Admit(t) \/ TurnAway(t) \/ SkipDuplicate(t)
                               \/ Hand(t) \/ RetryRefused(t) \/ CrashRun(t)
        PROVE  TypeOK'
    BY <1>1 DEF TypeOK, Send, Admit, TurnAway, SkipDuplicate, Hand, RetryRefused, CrashRun,
                RunState, Working, PollState
  <1>2. ASSUME NEW t \in Task, Initiate(t) PROVE TypeOK'
    <2>1. born' \in [Task -> Nat]
      BY <1>2, RowsAreCounted DEF TypeOK, Initiate
    <2> QED BY <1>2, <2>1 DEF TypeOK, Initiate, RunState, Working, BackupStatus, ActiveStatus,
                              NodeStatus
  <1>3. ASSUME NEW t \in Task, Request(t) PROVE TypeOK'
    <2>1. snap' \in [Task -> [Attempt -> SnapState]]
      BY <1>3 DEF TypeOK, Request, SnapState
    <2> QED BY <1>3, <2>1 DEF TypeOK, Request, RunState, Working
  <1>4. ASSUME NEW t \in Task, Refuse(t) \/ LoseReply(t) \/ HandRefused(t) PROVE TypeOK'
    <2>1. RetryOrGiveUp(t)
      BY <1>4 DEF Refuse, LoseReply, HandRefused
    <2> QED BY <1>4, <2>1, RetryTypes DEF TypeOK, Refuse, LoseReply, HandRefused
  <1>5. ASSUME NEW t \in Task, Record(t) PROVE TypeOK'
    BY <1>5 DEF TypeOK, Record, RunState, Working, BackupStatus, ActiveStatus
  <1>6. ASSUME NEW t \in Task, TimeOut(t) PROVE TypeOK'
    BY <1>6 DEF TypeOK, TimeOut, RunState, BackupStatus, NodeStatus, PollState
  <1>7. ASSUME NEW t \in Task, \/ PollRead(t) \/ PollAgain(t) \/ PollAgainRefused(t)
                               \/ PruneAbort(t) \/ PollEnd(t) \/ CrashPoll(t)
        PROVE  TypeOK'
    BY <1>7 DEF TypeOK, PollRead, PollAgain, PollAgainRefused, PruneAbort, PollEnd, CrashPoll,
                PollState
  <1>8. ASSUME NEW t \in Task, PollTimeOut(t) \/ PollFail(t) PROVE TypeOK'
    <2>1. CASE PollTimeOut(t)
      BY <2>1 DEF TypeOK, PollTimeOut, PollState, BackupStatus, NodeStatus
    <2>2. CASE PollFail(t)
      BY <2>2 DEF TypeOK, PollFail, PollState, BackupStatus, NodeStatus
    <2> QED BY <1>8, <2>1, <2>2
  <1>9. ASSUME NEW t \in Task, PollComplete(t) PROVE TypeOK'
    <2>1. uid' \in [Task -> SUBSET Attempt]
      BY <1>9 DEF TypeOK, PollComplete, Listed
    <2>2. victims' \in [Task -> SUBSET Task]
      BY <1>9, CloudAssumption DEF TypeOK, PollComplete, Excess
    <2>3. /\ backup' \in [Task -> BackupStatus]
          /\ poll' \in [Task -> PollState]
          /\ node' \in NodeStatus
      BY <1>9 DEF TypeOK, PollComplete, BackupStatus, PollState, NodeStatus
    <2> QED BY <1>9, <2>1, <2>2, <2>3 DEF TypeOK, PollComplete
  <1>10. ASSUME NEW t \in Task, PruneOne(t) PROVE TypeOK'
    <2>1. PICK u \in victims[t] : SoftDelete(u) /\ victims' = [victims EXCEPT ![t] = @ \ {u}]
      BY <1>10 DEF PruneOne
    <2>2. u \in Task /\ victims' \in [Task -> SUBSET Task]
      BY <2>1 DEF TypeOK
    <2> QED BY <1>10, <2>1, <2>2, DeleteTypes DEF TypeOK, PruneOne
  <1>11. ASSUME NEW t \in Task, Cancel(t) PROVE TypeOK'
    BY <1>11 DEF TypeOK, Cancel, RunState, BackupStatus, NodeStatus
  <1>12. ASSUME NEW t \in Task, Destroy(t) PROVE TypeOK'
    BY <1>12, DeleteTypes DEF TypeOK, Destroy
  <1>13. ASSUME NEW t \in Task, NEW a \in Attempt, Finish(t, a) PROVE TypeOK'
    <2>1. snap' \in [Task -> [Attempt -> SnapState]]
      BY <1>13 DEF TypeOK, Finish, SnapState
    <2> QED BY <1>13, <2>1 DEF TypeOK, Finish
  <1>14. ASSUME NEW status \in NodeStatus, SetNode(status) PROVE TypeOK'
    BY <1>14 DEF TypeOK, SetNode
  <1>15. CASE UNCHANGED vars
    BY <1>15 DEF TypeOK, vars
  <1> QED
    BY <1>1, <1>2, <1>3, <1>4, <1>5, <1>6, <1>7, <1>8, <1>9, <1>10, <1>11, <1>12, <1>13, <1>14,
       <1>15
    DEF Next, TaskStep, PollStep

\* Every variable keeps its type: no status, task or poll takes a value the code never gives.
THEOREM TypeCorrect == Spec => []TypeOK
  BY InitTypeOK, StepTypeOK, PTL DEF Spec

-----------------------------------------------------------------------------
(* The invariant.                                                          *)

Over == {"pruning", "done"}
Stored == {"COMPLETE", "DELETE_COMPLETED", "DELETE_FAILED"}

\* The poll comes after the task, and a row is complete only once its poll is past asking.
InOrder(t) ==
    /\ poll[t] # "none" => run[t] = "done"
    /\ backup[t] = "COMPLETE" => poll[t] \in Over
    /\ run[t] = "requested" => action[t] = {}
    /\ run[t] \in {"unsent", "queued"} => attempt[t] = 0

\* A task at work has an active row, as long as no operator touched it.
WorkIsActive(t) == t \in Untouched /\ AtWork(t) => Active(t)

\* Only a backup that was complete has a snapshot deleted.
DeletedIsOver(t) ==
    t \in Untouched => \A a \in Attempt : snap[t][a] = "deleted" => poll[t] \in Over

\* Without a fault a backup has one snapshot: the one recorded, or still to be recorded.
SnapIsRecorded(t) ==
    t \in Undisturbed =>
        \A a \in Attempt : snap[t][a] # "none" =>
            action[t] = {a} \/ (run[t] = "requested" /\ a = attempt[t])

\* Without a fault a poll and a snapshot in the making have an active row.
BusyIsActive(t) ==
    t \in Undisturbed /\ (Polled(t) \/ \E a \in Attempt : snap[t][a] = "running") => Active(t)

\* The checked properties, for one backup.
HasSnapshot(t) == t \in Untouched /\ backup[t] = "COMPLETE" => Listed(t) # {}

NotForgotten(t) ==
    t \in Undisturbed /\ backup[t] \in {"FAILED", "MAX_RETRY_FAILED", "DELETE_COMPLETED"} =>
        \A a \in Attempt : snap[t][a] \notin {"running", "ready"}

HasWork(t) == t \in Undisturbed /\ Active(t) => AtWork(t) \/ Polled(t)

Good(t) ==
    /\ InOrder(t)
    /\ WorkIsActive(t)
    /\ DeletedIsOver(t)
    /\ SnapIsRecorded(t)
    /\ BusyIsActive(t)
    /\ HasSnapshot(t)
    /\ NotForgotten(t)
    /\ HasWork(t)

\* What a poll is about to prune was complete, and is nobody's work any more.
VictimsAreStored ==
    \A t \in Task : \A u \in victims[t] :
        poll[u] \in Over /\ (u \in Untouched => backup[u] \in Stored)

CloudInv ==
    /\ TypeOK
    /\ \A t \in Task : Good(t)
    /\ OneActiveBackup
    /\ VictimsAreStored

LEMMA InitCloudInv == Init => CloudInv
  <1> SUFFICES ASSUME Init PROVE CloudInv
    OBVIOUS
  <1>1. \A t \in Task : Good(t)
    BY DEF Init, Good, InOrder, WorkIsActive, DeletedIsOver, SnapIsRecorded, BusyIsActive,
           HasSnapshot, NotForgotten, HasWork, AtWork, Polled, Active, ActiveStatus
  <1>2. OneActiveBackup /\ VictimsAreStored
    BY DEF Init, OneActiveBackup, VictimsAreStored, Untouched, Active, ActiveStatus
  <1> QED BY <1>1, <1>2, InitTypeOK DEF CloudInv

-----------------------------------------------------------------------------
(* What a step may do: it concerns one backup, and leaves the others as    *)
(* they are.                                                               *)

Same(w) ==
    /\ run'[w] = run[w]
    /\ attempt'[w] = attempt[w]
    /\ backup'[w] = backup[w]
    /\ snap'[w] = snap[w]
    /\ action'[w] = action[w]
    /\ poll'[w] = poll[w]
    /\ w \in touched' <=> w \in touched
    /\ w \in hit' <=> w \in hit

LEMMA SameGood == ASSUME NEW w \in Task, Good(w), Same(w) PROVE Good(w)'
  <1> USE DEF Same
  <1>1. (w \in Untouched)' <=> w \in Untouched
    BY DEF Untouched
  <1>2. (w \in Undisturbed)' <=> w \in Undisturbed
    BY DEF Undisturbed
  <1>3. /\ AtWork(w)' <=> AtWork(w)
        /\ Active(w)' <=> Active(w)
        /\ Polled(w)' <=> Polled(w)
    BY DEF AtWork, Active, Polled
  <1>4. InOrder(w)'
    BY DEF Good, InOrder
  <1>5. WorkIsActive(w)' /\ HasWork(w)'
    BY <1>1, <1>2, <1>3 DEF Good, WorkIsActive, HasWork
  <1>6. DeletedIsOver(w)'
    BY <1>1 DEF Good, DeletedIsOver
  <1>7. SnapIsRecorded(w)'
    BY <1>2 DEF Good, SnapIsRecorded
  <1>8. BusyIsActive(w)'
    BY <1>2, <1>3 DEF Good, BusyIsActive
  <1>9. HasSnapshot(w)' /\ NotForgotten(w)'
    BY <1>1, <1>2 DEF Good, HasSnapshot, NotForgotten, Listed
  <1> QED BY <1>4, <1>5, <1>6, <1>7, <1>8, <1>9 DEF Good

\* The step of backup t makes its row active only when it was, or when no other is.
GuardKept(t) ==
    t \notin touched' /\ Active(t)' => t \notin touched /\ (Active(t) \/ ~ OtherActive(t))

\* A poll that is over stays over, and what was stored is not completed again.
OverKept(t) ==
    poll[t] \in Over =>
        /\ poll'[t] \in Over
        /\ t \notin touched' => t \notin touched /\ (backup[t] \in Stored => backup'[t] \in Stored)

LEMMA GuardStep ==
    ASSUME NEW t \in Task, OneActiveBackup, GuardKept(t), \A w \in Task \ {t} : Same(w)
    PROVE  OneActiveBackup'
  <1> SUFFICES ASSUME NEW v \in Task, NEW u \in Task, v # u,
                      v \notin touched', u \notin touched', Active(v)', Active(u)'
               PROVE  FALSE
    BY DEF OneActiveBackup, Untouched
  <1>1. \A w \in Task \ {t} : (Active(w)' <=> Active(w)) /\ (w \in touched' <=> w \in touched)
    BY DEF Same, Active
  <1>2. ASSUME NEW w \in Task \ {t}, w \notin touched', Active(w)', t \notin touched', Active(t)'
        PROVE  FALSE
    <2>1. w \notin touched /\ Active(w) /\ OtherActive(t)
      BY <1>1, <1>2 DEF OtherActive
    <2>2. t \notin touched /\ Active(t)
      BY <1>2, <2>1 DEF GuardKept
    <2> QED BY <1>2, <2>1, <2>2 DEF OneActiveBackup, Untouched
  <1>3. CASE v # t /\ u # t
    BY <1>1, <1>3 DEF OneActiveBackup, Untouched
  <1> QED BY <1>2, <1>3

LEMMA OneTask ==
    ASSUME CloudInv, TypeOK', NEW t \in Task,
           \A w \in Task \ {t} : Same(w),
           Good(t)', GuardKept(t), OverKept(t),
           \A v \in Task : victims'[v] \subseteq victims[v]
    PROVE  CloudInv'
  <1>1. \A w \in Task : Good(w)'
    BY SameGood DEF CloudInv
  <1>2. OneActiveBackup'
    BY GuardStep DEF CloudInv
  <1>3. VictimsAreStored'
    <2> SUFFICES ASSUME NEW v \in Task, NEW u \in victims'[v]
                 PROVE  poll'[u] \in Over /\ (u \in Task \ touched' => backup'[u] \in Stored)
      BY DEF VictimsAreStored, Untouched
    <2>1. u \in Task /\ poll[u] \in Over /\ (u \in Task \ touched => backup[u] \in Stored)
      BY DEF CloudInv, VictimsAreStored, Untouched, TypeOK
    <2> QED BY <2>1 DEF Same, OverKept
  <1> QED BY <1>1, <1>2, <1>3 DEF CloudInv

-----------------------------------------------------------------------------
(* The steps of the task.                                                  *)

\* What a step of the task leaves alone.
OnlyTask(t) ==
    /\ \A w \in Task \ {t} : Same(w)
    /\ victims' = victims
    /\ poll[t] = "none"

LEMMA TaskInv ==
    ASSUME CloudInv, TypeOK', NEW t \in Task, OnlyTask(t), Good(t)', GuardKept(t)
    PROVE  CloudInv'
  <1>1. OverKept(t)
    BY DEF OnlyTask, OverKept, Over
  <1> QED BY <1>1, OneTask DEF OnlyTask

\* A task that is not over has no poll and no deleted snapshot.
LEMMA NoPollYet ==
    ASSUME CloudInv, NEW t \in Task, run[t] # "done"
    PROVE  /\ poll[t] = "none"
           /\ backup[t] # "COMPLETE"
           /\ t \in Untouched => \A a \in Attempt : snap[t][a] # "deleted"
  BY DEF CloudInv, Good, InOrder, DeletedIsOver, Over

\* Send, Admit: the task only moves on.
LEMMA MoveInv ==
    ASSUME CloudInv, TypeOK', NEW t \in Task, Send(t) \/ Admit(t)
    PROVE  CloudInv'
  <1> USE DEF Send, Admit, Advance, row, history
  <1>1. run[t] \in {"unsent", "queued", "waiting"} /\ run'[t] \in {"queued", "admitted"}
    BY DEF CloudInv, TypeOK
  <1>2. poll[t] = "none" /\ backup[t] # "COMPLETE"
    BY <1>1, NoPollYet
  <1>3. UNCHANGED <<attempt, backup, snap, action, poll, victims, touched, hit>>
    OBVIOUS
  <1>4. OnlyTask(t)
    BY <1>2, <1>3 DEF OnlyTask, Same, CloudInv, TypeOK
  <1>5. AtWork(t)' <=> AtWork(t)
    BY <1>1, <1>3 DEF AtWork, CloudInv, TypeOK, Good, InOrder
  <1>6. Active(t)' <=> Active(t)
    BY <1>3 DEF Active
  <1>7. InOrder(t)'
    BY <1>1, <1>2, <1>3 DEF CloudInv, TypeOK, Good, InOrder
  <1>8. /\ WorkIsActive(t)' /\ HasWork(t)'
        /\ DeletedIsOver(t)' /\ BusyIsActive(t)' /\ HasSnapshot(t)' /\ NotForgotten(t)'
    BY <1>3, <1>5, <1>6
    DEF CloudInv, Good, WorkIsActive, HasWork, DeletedIsOver, BusyIsActive, HasSnapshot, NotForgotten,
        Untouched, Undisturbed, Polled, Listed
  <1>9. SnapIsRecorded(t)'
    BY <1>1, <1>3 DEF CloudInv, Good, SnapIsRecorded, Undisturbed
  <1>10. Good(t)'
    BY <1>7, <1>8, <1>9 DEF Good
  <1>11. GuardKept(t)
    BY <1>3, <1>6 DEF GuardKept
  <1> QED BY <1>4, <1>10, <1>11, TaskInv

\* The task ends, and the backup counts among those that met a fault.
LEMMA DropInv ==
    ASSUME CloudInv, TypeOK', NEW t \in Task, TurnAway(t) \/ RetryRefused(t) \/ CrashRun(t)
    PROVE  CloudInv'
  <1> USE DEF TurnAway, RetryRefused, CrashRun, Advance, row, Disturb
  <1>1. run[t] # "done" /\ run'[t] = "done"
    BY DEF CloudInv, TypeOK, Working
  <1>2. poll[t] = "none" /\ backup[t] # "COMPLETE"
    BY <1>1, NoPollYet
  <1>3. UNCHANGED <<attempt, backup, snap, action, poll, victims, touched>> /\ hit' = hit \cup {t}
    OBVIOUS
  <1>4. OnlyTask(t)
    BY <1>2, <1>3 DEF OnlyTask, Same, CloudInv, TypeOK
  <1>5. InOrder(t)'
    BY <1>1, <1>2, <1>3 DEF InOrder
  <1>6. WorkIsActive(t)'
    BY <1>1 DEF WorkIsActive, AtWork
  <1>7. DeletedIsOver(t)' /\ HasSnapshot(t)'
    BY <1>3 DEF CloudInv, Good, DeletedIsOver, HasSnapshot, Untouched, Listed
  <1>8. SnapIsRecorded(t)' /\ BusyIsActive(t)' /\ NotForgotten(t)' /\ HasWork(t)'
    BY <1>3 DEF SnapIsRecorded, BusyIsActive, NotForgotten, HasWork, Undisturbed
  <1>9. Good(t)'
    BY <1>5, <1>6, <1>7, <1>8 DEF Good
  <1>10. GuardKept(t)
    BY <1>3 DEF GuardKept, Active
  <1> QED BY <1>4, <1>9, <1>10, TaskInv

\* A backup that met no fault finds an active one only when its own row is not active.
LEMMA SkipInv ==
    ASSUME CloudInv, TypeOK', NEW t \in Task, SkipDuplicate(t)
    PROVE  CloudInv'
  <1> USE DEF SkipDuplicate, Advance, row
  <1>1. run[t] = "admitted" /\ run'[t] = "skipped" /\ OtherActive(t)
    BY DEF CloudInv, TypeOK
  <1>2. poll[t] = "none" /\ backup[t] # "COMPLETE"
    BY <1>1, NoPollYet
  <1>3. UNCHANGED <<attempt, backup, snap, action, poll, victims, touched>>
    OBVIOUS
  <1>4. hit' = IF \E u \in touched : Active(u) THEN hit \cup {t} ELSE hit
    OBVIOUS
  <1>5. OnlyTask(t)
    BY <1>2, <1>3, <1>4 DEF OnlyTask, Same, CloudInv, TypeOK
  <1>6. t \in Undisturbed' => t \in Undisturbed /\ ~ Active(t)
    <2> SUFFICES ASSUME t \in Undisturbed' PROVE t \in Undisturbed /\ ~ Active(t)
      OBVIOUS
    <2>1. t \in Undisturbed /\ ~ \E u \in touched : Active(u)
      BY <1>3, <1>4 DEF Undisturbed
    <2>2. PICK u \in Task \ {t} : Active(u)
      BY <1>1 DEF OtherActive
    <2> QED BY <2>1, <2>2 DEF CloudInv, OneActiveBackup, Undisturbed, Untouched
  <1>7. InOrder(t)'
    BY <1>1, <1>2, <1>3 DEF InOrder
  <1>8. WorkIsActive(t)' /\ HasWork(t)'
    BY <1>1, <1>3, <1>6 DEF WorkIsActive, HasWork, AtWork, Active
  <1>9. DeletedIsOver(t)' /\ HasSnapshot(t)'
    BY <1>3 DEF CloudInv, Good, DeletedIsOver, HasSnapshot, Untouched, Listed
  <1>10. SnapIsRecorded(t)' /\ BusyIsActive(t)' /\ NotForgotten(t)'
    BY <1>1, <1>3, <1>6
    DEF CloudInv, Good, SnapIsRecorded, BusyIsActive, NotForgotten, Polled, Active
  <1>11. Good(t)'
    BY <1>7, <1>8, <1>9, <1>10 DEF Good
  <1>12. GuardKept(t)
    BY <1>3 DEF GuardKept, Active
  <1> QED BY <1>5, <1>11, <1>12, TaskInv

\* Under the row lock no other row is active: this one becomes it.
LEMMA InitiateInv ==
    ASSUME CloudInv, TypeOK', NEW t \in Task, Initiate(t)
    PROVE  CloudInv'
  <1> USE DEF Initiate, Advance, SetRow, history
  <1>1. /\ run[t] = "admitted" /\ run'[t] = "initiated"
        /\ ~ OtherActive(t)
        /\ backup'[t] = "IN_PROGRESS"
    BY DEF CloudInv, TypeOK
  <1>2. poll[t] = "none"
    BY <1>1, NoPollYet
  <1>3. UNCHANGED <<attempt, snap, action, poll, victims, touched, hit>>
    OBVIOUS
  <1>4. OnlyTask(t)
    BY <1>2, <1>3 DEF OnlyTask, Same, CloudInv, TypeOK
  <1>5. Active(t)' /\ AtWork(t)'
    BY <1>1 DEF Active, ActiveStatus, AtWork
  <1>6. InOrder(t)'
    BY <1>1, <1>2, <1>3 DEF InOrder
  <1>7. /\ WorkIsActive(t)' /\ HasWork(t)' /\ BusyIsActive(t)'
        /\ HasSnapshot(t)' /\ NotForgotten(t)'
    BY <1>1, <1>5 DEF WorkIsActive, HasWork, BusyIsActive, HasSnapshot, NotForgotten
  <1>8. DeletedIsOver(t)' /\ SnapIsRecorded(t)'
    BY <1>1, <1>3 DEF CloudInv, Good, DeletedIsOver, SnapIsRecorded, Untouched, Undisturbed
  <1>9. Good(t)'
    BY <1>6, <1>7, <1>8 DEF Good
  <1>10. GuardKept(t)
    BY <1>1, <1>3 DEF GuardKept
  <1> QED BY <1>4, <1>9, <1>10, TaskInv

\* Nothing was asked for before: the new snapshot is the only one.
LEMMA RequestInv ==
    ASSUME CloudInv, TypeOK', NEW t \in Task, Request(t)
    PROVE  CloudInv'
  <1> USE DEF Request, Advance, row, history
  <1>1. run[t] = "initiated" /\ run'[t] = "requested" /\ action[t] = {}
    BY DEF CloudInv, TypeOK
  <1>2. poll[t] = "none" /\ backup[t] # "COMPLETE"
    BY <1>1, NoPollYet
  <1>3. UNCHANGED <<attempt, backup, action, poll, victims, touched, hit>>
    OBVIOUS
  <1>4. \A a \in Attempt : snap'[t][a] = IF a = attempt[t] THEN "running" ELSE snap[t][a]
    BY DEF CloudInv, TypeOK
  <1>5. OnlyTask(t)
    BY <1>2, <1>3 DEF OnlyTask, Same, CloudInv, TypeOK
  <1>6. t \in Untouched => Active(t)
    BY <1>1 DEF CloudInv, Good, WorkIsActive, AtWork
  <1>7. AtWork(t)' /\ (Active(t)' <=> Active(t))
    BY <1>1, <1>3 DEF AtWork, Active
  <1>8. InOrder(t)'
    BY <1>1, <1>2, <1>3 DEF InOrder
  <1>9. WorkIsActive(t)' /\ HasWork(t)' /\ BusyIsActive(t)' /\ HasSnapshot(t)'
    BY <1>2, <1>3, <1>6, <1>7
    DEF WorkIsActive, HasWork, BusyIsActive, HasSnapshot, Untouched, Undisturbed
  <1>10. NotForgotten(t)'
    BY <1>3, <1>6 DEF NotForgotten, Untouched, Undisturbed, Active, ActiveStatus
  <1>11. DeletedIsOver(t)'
    BY <1>3, <1>4 DEF CloudInv, Good, DeletedIsOver, Untouched
  <1>12. SnapIsRecorded(t)'
    BY <1>1, <1>3, <1>4 DEF CloudInv, Good, SnapIsRecorded, Undisturbed
  <1>13. Good(t)'
    BY <1>8, <1>9, <1>10, <1>11, <1>12 DEF Good
  <1>14. GuardKept(t)
    BY <1>3, <1>7 DEF GuardKept
  <1> QED BY <1>5, <1>13, <1>14, TaskInv

\* The recorded snapshot is the one just asked for.
LEMMA RecordInv ==
    ASSUME CloudInv, TypeOK', NEW t \in Task, Record(t)
    PROVE  CloudInv'
  <1> USE DEF Record, Advance, SetRow, history
  <1>1. /\ run[t] = "requested" /\ run'[t] = "handing"
        /\ action'[t] = {attempt[t]} /\ backup'[t] = "IN_PROGRESS"
    BY DEF CloudInv, TypeOK
  <1>2. poll[t] = "none"
    BY <1>1, NoPollYet
  <1>3. UNCHANGED <<attempt, snap, poll, victims, touched, hit>>
    OBVIOUS
  <1>4. OnlyTask(t)
    BY <1>2, <1>3 DEF OnlyTask, Same, CloudInv, TypeOK
  <1>5. t \in Untouched => Active(t)
    BY <1>1 DEF CloudInv, Good, WorkIsActive, AtWork
  <1>6. AtWork(t)' /\ Active(t)'
    BY <1>1 DEF AtWork, Active, ActiveStatus
  <1>7. InOrder(t)'
    BY <1>1, <1>2, <1>3 DEF InOrder
  <1>8. /\ WorkIsActive(t)' /\ HasWork(t)' /\ BusyIsActive(t)'
        /\ HasSnapshot(t)' /\ NotForgotten(t)'
    BY <1>1, <1>6 DEF WorkIsActive, HasWork, BusyIsActive, HasSnapshot, NotForgotten
  <1>9. DeletedIsOver(t)'
    BY <1>3 DEF CloudInv, Good, DeletedIsOver, Untouched
  <1>10. SnapIsRecorded(t)'
    <2>1. action[t] = {}
      BY <1>1 DEF CloudInv, Good, InOrder
    <2> QED BY <1>1, <1>3, <2>1 DEF CloudInv, Good, SnapIsRecorded, Undisturbed
  <1>11. Good(t)'
    BY <1>7, <1>8, <1>9, <1>10 DEF Good
  <1>12. GuardKept(t)
    BY <1>3, <1>5 DEF GuardKept, Untouched
  <1> QED BY <1>4, <1>11, <1>12, TaskInv

\* A failed attempt: without a fault nothing was asked for.
LEMMA FailInv ==
    ASSUME CloudInv, TypeOK', NEW t \in Task, Refuse(t) \/ LoseReply(t) \/ HandRefused(t)
    PROVE  CloudInv'
  <1> USE DEF Refuse, LoseReply, HandRefused, history, Disturb
  <1>1. run[t] \in {"initiated", "requested", "handing"} /\ RetryOrGiveUp(t)
    BY DEF Handing
  <1>2. poll[t] = "none"
    BY <1>1, NoPollYet
  <1>3. UNCHANGED <<snap, action, poll, victims, touched>>
    OBVIOUS
  <1>4. \/ /\ attempt[t] < MaxRetries
           /\ run'[t] = "waiting" /\ backup'[t] = "RETRYING" /\ attempt'[t] = attempt[t] + 1
        \/ run'[t] = "done" /\ backup'[t] = "MAX_RETRY_FAILED" /\ attempt'[t] = attempt[t]
    BY <1>1 DEF RetryOrGiveUp, Advance, SetRow, CloudInv, TypeOK
  <1>5. \A w \in Task \ {t} : run'[w] = run[w] /\ backup'[w] = backup[w] /\ attempt'[w] = attempt[w]
    BY <1>1 DEF RetryOrGiveUp, Advance, SetRow, CloudInv, TypeOK
  <1>6. hit' = hit \/ hit' = hit \cup {t}
    OBVIOUS
  <1>7. OnlyTask(t)
    BY <1>2, <1>3, <1>5, <1>6 DEF OnlyTask, Same
  <1>8. t \in Untouched => Active(t)
    BY <1>1 DEF CloudInv, Good, WorkIsActive, AtWork
  <1>9. t \in Undisturbed' => t \in Undisturbed /\ run[t] = "initiated" /\ action[t] = {}
    BY <1>3, <1>6 DEF Undisturbed
  <1>10. t \in Undisturbed' => \A a \in Attempt : snap'[t][a] = "none"
    BY <1>3, <1>9 DEF CloudInv, Good, SnapIsRecorded
  <1>11. ~ Polled(t)' /\ backup'[t] # "COMPLETE"
    BY <1>2, <1>3, <1>4 DEF Polled
  <1>12. (AtWork(t)' <=> Active(t)')
    <2>1. CASE run'[t] = "waiting"
      <3>1. attempt'[t] > 0
        BY <1>4, <2>1, CloudAssumption DEF CloudInv, TypeOK, Attempt
      <3> QED BY <1>4, <2>1, <3>1 DEF AtWork, Active, ActiveStatus
    <2>2. CASE run'[t] = "done"
      BY <1>4, <2>2 DEF AtWork, Active, ActiveStatus
    <2> QED BY <1>4, <2>1, <2>2
  <1>13. InOrder(t)'
    BY <1>2, <1>3, <1>4, <1>11 DEF InOrder
  <1>14. WorkIsActive(t)' /\ HasWork(t)' /\ HasSnapshot(t)'
    BY <1>11, <1>12 DEF WorkIsActive, HasWork, HasSnapshot
  <1>15. DeletedIsOver(t)'
    BY <1>3 DEF CloudInv, Good, DeletedIsOver, Untouched
  <1>16. SnapIsRecorded(t)' /\ BusyIsActive(t)' /\ NotForgotten(t)'
    BY <1>10, <1>11 DEF SnapIsRecorded, BusyIsActive, NotForgotten
  <1>17. Good(t)'
    BY <1>13, <1>14, <1>15, <1>16 DEF Good
  <1>18. GuardKept(t)
    BY <1>3, <1>8 DEF GuardKept, Untouched
  <1> QED BY <1>7, <1>17, <1>18, TaskInv

\* The hand-over: the poll takes over an active row.
LEMMA HandInv ==
    ASSUME CloudInv, TypeOK', NEW t \in Task, Hand(t)
    PROVE  CloudInv'
  <1> USE DEF Hand, Advance, row, history
  <1>1. /\ run[t] \in {"initiated", "handing"} /\ run'[t] = "done"
        /\ poll'[t] = "queued"
    BY DEF CloudInv, TypeOK, Handing
  <1>2. poll[t] = "none" /\ backup[t] # "COMPLETE"
    BY <1>1, NoPollYet
  <1>3. UNCHANGED <<attempt, backup, snap, action, victims, touched, hit>>
    OBVIOUS
  <1>4. OnlyTask(t)
    BY <1>2, <1>3 DEF OnlyTask, Same, CloudInv, TypeOK
  <1>5. t \in Untouched => Active(t)
    BY <1>1 DEF CloudInv, Good, WorkIsActive, AtWork
  <1>6. Polled(t)' /\ ~ AtWork(t)' /\ (Active(t)' <=> Active(t))
    BY <1>1, <1>3 DEF Polled, AtWork, Active
  <1>7. InOrder(t)'
    BY <1>1, <1>2, <1>3 DEF InOrder
  <1>8. WorkIsActive(t)' /\ HasWork(t)' /\ BusyIsActive(t)' /\ HasSnapshot(t)'
    BY <1>2, <1>3, <1>5, <1>6
    DEF WorkIsActive, HasWork, BusyIsActive, HasSnapshot, Untouched, Undisturbed
  <1>9. NotForgotten(t)'
    BY <1>3, <1>5 DEF NotForgotten, Untouched, Undisturbed, Active, ActiveStatus
  <1>10. DeletedIsOver(t)'
    BY <1>1, <1>3, NoPollYet DEF DeletedIsOver, Untouched
  <1>11. SnapIsRecorded(t)'
    BY <1>1, <1>3 DEF CloudInv, Good, SnapIsRecorded, Undisturbed
  <1>12. Good(t)'
    BY <1>7, <1>8, <1>9, <1>10, <1>11 DEF Good
  <1>13. GuardKept(t)
    BY <1>3, <1>6 DEF GuardKept
  <1> QED BY <1>4, <1>12, <1>13, TaskInv

LEMMA TimeOutInv ==
    ASSUME CloudInv, TypeOK', NEW t \in Task, TimeOut(t)
    PROVE  CloudInv'
  <1> USE DEF TimeOut, Advance, SetRow, Disturb
  <1>1. /\ run[t] \in {"initiated", "handing"} /\ run'[t] = "done"
        /\ backup'[t] = "TIMEOUT"
    BY DEF CloudInv, TypeOK, Handing
  <1>2. poll[t] = "none"
    BY <1>1, NoPollYet
  <1>3. UNCHANGED <<attempt, snap, action, victims, touched>> /\ hit' = hit \cup {t}
    OBVIOUS
  <1>4. \A w \in Task \ {t} : poll'[w] = poll[w]
    BY DEF CloudInv, TypeOK
  <1>5. OnlyTask(t)
    BY <1>2, <1>3, <1>4 DEF OnlyTask, Same, CloudInv, TypeOK
  <1>6. InOrder(t)'
    BY <1>1 DEF InOrder
  <1>7. WorkIsActive(t)' /\ HasSnapshot(t)'
    BY <1>1 DEF WorkIsActive, HasSnapshot, AtWork
  <1>8. DeletedIsOver(t)'
    BY <1>1, <1>3, NoPollYet DEF DeletedIsOver, Untouched
  <1>9. SnapIsRecorded(t)' /\ BusyIsActive(t)' /\ NotForgotten(t)' /\ HasWork(t)'
    BY <1>3 DEF SnapIsRecorded, BusyIsActive, NotForgotten, HasWork, Undisturbed
  <1>10. Good(t)'
    BY <1>6, <1>7, <1>8, <1>9 DEF Good
  <1>11. GuardKept(t)
    BY <1>1 DEF GuardKept, Active, ActiveStatus
  <1> QED BY <1>5, <1>10, <1>11, TaskInv

-----------------------------------------------------------------------------
(* The steps of the poll.                                                  *)

\* The poll checks once more, or stops at a settled row.
LEMMA PollMoveInv ==
    ASSUME CloudInv, TypeOK', NEW t \in Task, PollRead(t) \/ PollAgain(t)
    PROVE  CloudInv'
  <1> USE DEF PollRead, PollAgain, SetPoll, row, history
  <1>1. /\ poll[t] \in {"queued", "asking"}
        /\ poll'[t] \in {"queued", "asking"} \/ (poll'[t] = "done" /\ backup[t] \in PollStops)
    BY DEF CloudInv, TypeOK
  <1>2. UNCHANGED <<run, attempt, backup, snap, action, victims, touched, hit>>
    OBVIOUS
  <1>3. \A w \in Task \ {t} : Same(w)
    BY <1>2 DEF Same, CloudInv, TypeOK
  <1>4. (Active(t)' <=> Active(t)) /\ (AtWork(t)' <=> AtWork(t))
    BY <1>2 DEF Active, AtWork
  <1>5. Polled(t) /\ (Polled(t)' \/ ~ Active(t))
    BY <1>1 DEF Polled, Active, PollStops, ActiveStatus
  <1>6. run[t] = "done" /\ backup[t] # "COMPLETE"
    BY <1>1 DEF CloudInv, Good, InOrder, Over
  <1>7. InOrder(t)'
    BY <1>2, <1>6 DEF InOrder
  <1>8. WorkIsActive(t)' /\ HasWork(t)'
    BY <1>2, <1>4, <1>5 DEF CloudInv, Good, WorkIsActive, HasWork, Untouched, Undisturbed
  <1>9. DeletedIsOver(t)'
    BY <1>1, <1>2 DEF CloudInv, Good, DeletedIsOver, Untouched, Over
  <1>10. SnapIsRecorded(t)' /\ HasSnapshot(t)' /\ NotForgotten(t)'
    BY <1>2, <1>6
    DEF CloudInv, Good, SnapIsRecorded, HasSnapshot, NotForgotten, Untouched, Undisturbed
  <1>11. BusyIsActive(t)'
    BY <1>2, <1>4, <1>5 DEF CloudInv, Good, BusyIsActive, Undisturbed
  <1>12. Good(t)'
    BY <1>7, <1>8, <1>9, <1>10, <1>11 DEF Good
  <1>13. GuardKept(t) /\ OverKept(t)
    BY <1>1, <1>2, <1>4 DEF GuardKept, OverKept, Over
  <1> QED BY <1>2, <1>3, <1>12, <1>13, OneTask

\* A poll that ends by a fault leaves the row as it is, or times it out.
LEMMA PollDropInv ==
    ASSUME CloudInv, TypeOK', NEW t \in Task,
           PollAgainRefused(t) \/ PollTimeOut(t) \/ CrashPoll(t)
    PROVE  CloudInv'
  <1> USE DEF PollAgainRefused, PollTimeOut, CrashPoll, SetPoll, SetRow, row, Disturb
  <1>1. poll[t] \in {"asking", "pruning"} /\ poll'[t] = "done"
    BY DEF CloudInv, TypeOK
  <1>2. UNCHANGED <<run, attempt, snap, action, touched>> /\ hit' = hit \cup {t}
    OBVIOUS
  <1>3. backup'[t] = backup[t] \/ (backup'[t] = "TIMEOUT" /\ poll[t] = "asking")
    BY DEF CloudInv, TypeOK
  <1>4. \A w \in Task \ {t} : Same(w)
    <2>1. \A w \in Task \ {t} : poll'[w] = poll[w] /\ backup'[w] = backup[w]
      BY DEF CloudInv, TypeOK
    <2> QED BY <1>2, <2>1 DEF Same
  <1>5. run[t] = "done"
    BY <1>1 DEF CloudInv, Good, InOrder
  <1>6. InOrder(t)'
    BY <1>1, <1>2, <1>5 DEF InOrder, Over
  <1>7. WorkIsActive(t)'
    BY <1>2, <1>5 DEF WorkIsActive, AtWork
  <1>8. DeletedIsOver(t)' /\ HasSnapshot(t)'
    BY <1>1, <1>2, <1>3 DEF CloudInv, Good, DeletedIsOver, HasSnapshot, Untouched, Listed, Over
  <1>9. SnapIsRecorded(t)' /\ BusyIsActive(t)' /\ NotForgotten(t)' /\ HasWork(t)'
    BY <1>2 DEF SnapIsRecorded, BusyIsActive, NotForgotten, HasWork, Undisturbed
  <1>10. Good(t)'
    BY <1>6, <1>7, <1>8, <1>9 DEF Good
  <1>11. GuardKept(t)
    BY <1>2, <1>3 DEF GuardKept, Active, ActiveStatus
  <1>12. OverKept(t)
    BY <1>1, <1>2, <1>3 DEF OverKept, Over
  <1>13. \A v \in Task : victims'[v] \subseteq victims[v]
    BY DEF CloudInv, TypeOK
  <1> QED BY <1>4, <1>10, <1>11, <1>12, <1>13, OneTask

\* A failed action: the snapshot that was recorded, the only one, came to nothing.
LEMMA PollFailInv ==
    ASSUME CloudInv, TypeOK', NEW t \in Task, PollFail(t)
    PROVE  CloudInv'
  <1> USE DEF PollFail, SetPoll, SetRow, history
  <1>1. poll[t] = "asking" /\ poll'[t] = "done" /\ backup'[t] = "FAILED"
    BY DEF CloudInv, TypeOK
  <1>2. UNCHANGED <<run, attempt, snap, action, victims, touched, hit>>
    OBVIOUS
  <1>3. \A w \in Task \ {t} : Same(w)
    BY <1>2 DEF Same, CloudInv, TypeOK
  <1>4. run[t] = "done"
    BY <1>1 DEF CloudInv, Good, InOrder
  <1>5. t \in Undisturbed => \A a \in Attempt : snap[t][a] \in {"none", "errored"}
    <2>1. PICK b \in action[t] : snap[t][b] = "errored"
      BY DEF ActionIn
    <2> QED BY <1>4, <2>1 DEF CloudInv, Good, SnapIsRecorded
  <1>6. InOrder(t)' /\ WorkIsActive(t)' /\ HasSnapshot(t)' /\ HasWork(t)'
    BY <1>1, <1>2, <1>4
    DEF InOrder, WorkIsActive, HasSnapshot, HasWork, AtWork, Active, ActiveStatus
  <1>7. DeletedIsOver(t)'
    BY <1>1 DEF DeletedIsOver, Over
  <1>8. SnapIsRecorded(t)'
    BY <1>2, <1>4 DEF CloudInv, Good, SnapIsRecorded, Undisturbed
  <1>9. BusyIsActive(t)' /\ NotForgotten(t)'
    BY <1>1, <1>2, <1>5 DEF BusyIsActive, NotForgotten, Undisturbed, Polled
  <1>10. Good(t)'
    BY <1>6, <1>7, <1>8, <1>9 DEF Good
  <1>11. GuardKept(t) /\ OverKept(t)
    BY <1>1 DEF GuardKept, OverKept, Active, ActiveStatus, Over
  <1> QED BY <1>2, <1>3, <1>10, <1>11, OneTask

\* A completed action: the recorded snapshot is still there, since none of a backup whose
\* poll is not over was ever deleted.  What the poll will prune was completed by another.
LEMMA PollCompleteInv ==
    ASSUME CloudInv, TypeOK', NEW t \in Task, PollComplete(t)
    PROVE  CloudInv'
  <1> USE DEF PollComplete, SetPoll, SetRow, history
  <1>1. poll[t] = "asking" /\ poll'[t] = "pruning" /\ backup'[t] = "COMPLETE"
    BY DEF CloudInv, TypeOK
  <1>2. UNCHANGED <<run, attempt, snap, action, touched, hit>>
    OBVIOUS
  <1>3. \A w \in Task \ {t} : Same(w) /\ victims'[w] = victims[w]
    BY <1>2 DEF Same, CloudInv, TypeOK
  <1>4. run[t] = "done"
    BY <1>1 DEF CloudInv, Good, InOrder
  <1>5. PICK b \in action[t] : snap[t][b] \in {"ready", "deleted"}
    BY DEF ActionCompleted, ActionIn
  <1>6. b \in Attempt
    BY <1>5 DEF CloudInv, TypeOK
  <1>7. t \in Untouched => snap[t][b] = "ready"
    BY <1>1, <1>5, <1>6 DEF CloudInv, Good, DeletedIsOver, Over
  <1>8. t \in Undisturbed => \A a \in Attempt : snap[t][a] # "running"
    BY <1>4, <1>5 DEF CloudInv, Good, SnapIsRecorded
  <1>9. InOrder(t)' /\ WorkIsActive(t)' /\ HasWork(t)' /\ NotForgotten(t)'
    BY <1>1, <1>2, <1>4
    DEF InOrder, WorkIsActive, HasWork, NotForgotten, AtWork, Active, ActiveStatus, Over
  <1>10. DeletedIsOver(t)'
    BY <1>1 DEF DeletedIsOver, Over
  <1>11. SnapIsRecorded(t)'
    BY <1>2, <1>4 DEF CloudInv, Good, SnapIsRecorded, Undisturbed
  <1>12. BusyIsActive(t)'
    BY <1>1, <1>2, <1>8 DEF BusyIsActive, Undisturbed, Polled
  <1>13. HasSnapshot(t)'
    BY <1>2, <1>6, <1>7 DEF HasSnapshot, Listed, Untouched
  <1>14. Good(t)'
    BY <1>9, <1>10, <1>11, <1>12, <1>13 DEF Good
  <1>15. \A w \in Task : Good(w)'
    BY <1>3, <1>14, SameGood DEF CloudInv
  <1>16. GuardKept(t)
    BY <1>1 DEF GuardKept, Active, ActiveStatus
  <1>17. OneActiveBackup'
    BY <1>3, <1>16, GuardStep DEF CloudInv
  <1>18. VictimsAreStored'
    <2> SUFFICES ASSUME NEW v \in Task, NEW u \in victims'[v]
                 PROVE  poll'[u] \in Over /\ (u \in Untouched' => backup'[u] \in Stored)
      BY DEF VictimsAreStored
    <2>1. CASE v = t
      <3>1. u \in Task /\ backup'[u] = "COMPLETE"
        BY <2>1, CloudAssumption DEF CloudInv, TypeOK, Excess
      <3> QED BY <1>15, <3>1 DEF Good, InOrder, Stored
    <2>2. CASE v # t
      <3>1. /\ u \in Task /\ poll[u] \in Over
            /\ u \in Untouched => backup[u] \in Stored
        BY <1>3, <2>2 DEF CloudInv, VictimsAreStored, TypeOK
      <3>2. u # t
        BY <1>1, <3>1 DEF Over
      <3> QED BY <1>2, <1>3, <3>1, <3>2 DEF Same, Untouched
    <2> QED BY <2>1, <2>2
  <1> QED BY <1>15, <1>17, <1>18 DEF CloudInv

\* soft_delete, of a backup u whose poll is over and which is marked stored, or touched.
LEMMA SoftDeleteFacts ==
    ASSUME CloudInv, NEW u \in Task, SoftDelete(u)
    PROVE  /\ backup'[u] \in {"DELETE_COMPLETED", "DELETE_FAILED"}
           /\ \A w \in Task \ {u} : backup'[w] = backup[w] /\ snap'[w] = snap[w]
           /\ \A a \in Attempt : \/ snap'[u][a] = snap[u][a]
                                 \/ snap[u][a] = "ready" /\ snap'[u][a] = "deleted"
           /\ backup'[u] = "DELETE_COMPLETED" =>
                 \E b \in Attempt : snap[u][b] = "ready" /\ snap'[u][b] = "deleted"
  <1>1. CASE SetRow(u, "DELETE_FAILED") /\ UNCHANGED snap
    BY <1>1 DEF SetRow, CloudInv, TypeOK
  <1>2. ASSUME NEW b \in uid[u], snap[u][b] = "ready", snap' = [snap EXCEPT ![u][b] = "deleted"],
               SetRow(u, "DELETE_COMPLETED") \/ SetRow(u, "DELETE_FAILED")
        PROVE  /\ backup'[u] \in {"DELETE_COMPLETED", "DELETE_FAILED"}
               /\ \A w \in Task \ {u} : backup'[w] = backup[w] /\ snap'[w] = snap[w]
               /\ \A a \in Attempt : \/ snap'[u][a] = snap[u][a]
                                     \/ snap[u][a] = "ready" /\ snap'[u][a] = "deleted"
               /\ \E c \in Attempt : snap[u][c] = "ready" /\ snap'[u][c] = "deleted"
    <2>1. b \in Attempt
      BY DEF CloudInv, TypeOK
    <2>2. /\ \A w \in Task \ {u} : snap'[w] = snap[w]
          /\ \A a \in Attempt : snap'[u][a] = IF a = b THEN "deleted" ELSE snap[u][a]
      BY <1>2, <2>1 DEF CloudInv, TypeOK
    <2>3. /\ backup'[u] \in {"DELETE_COMPLETED", "DELETE_FAILED"}
          /\ \A w \in Task \ {u} : backup'[w] = backup[w]
      BY <1>2 DEF SetRow, CloudInv, TypeOK
    <2> QED BY <1>2, <2>1, <2>2, <2>3
  <1> QED BY <1>1, <1>2 DEF SoftDelete

LEMMA PruneInv ==
    ASSUME CloudInv, TypeOK', NEW t \in Task, PruneOne(t)
    PROVE  CloudInv'
  <1> USE DEF history
  <1>1. PICK u \in victims[t] : SoftDelete(u) /\ victims' = [victims EXCEPT ![t] = @ \ {u}]
    BY DEF PruneOne
  <1>2. /\ u \in Task /\ poll[u] \in Over
        /\ u \in Untouched => backup[u] \in Stored
    BY <1>1 DEF CloudInv, VictimsAreStored, TypeOK
  <1>3. UNCHANGED <<run, attempt, action, poll, touched, hit>>
    BY DEF PruneOne
  <1>4. /\ backup'[u] \in {"DELETE_COMPLETED", "DELETE_FAILED"}
        /\ \A w \in Task \ {u} : backup'[w] = backup[w] /\ snap'[w] = snap[w]
        /\ \A a \in Attempt : \/ snap'[u][a] = snap[u][a]
                              \/ snap[u][a] = "ready" /\ snap'[u][a] = "deleted"
        /\ backup'[u] = "DELETE_COMPLETED" =>
              \E b \in Attempt : snap[u][b] = "ready" /\ snap'[u][b] = "deleted"
    BY <1>1, <1>2, SoftDeleteFacts
  <1>5. \A w \in Task \ {u} : Same(w)
    BY <1>3, <1>4 DEF Same
  <1>6. run[u] = "done"
    BY <1>2 DEF CloudInv, Good, InOrder, Over
  <1>7. u \in Untouched => ~ Active(u)
    BY <1>2 DEF Active, ActiveStatus, Stored
  <1>8. u \in Undisturbed => \A a \in Attempt : snap[u][a] # "none" => action[u] = {a}
    BY <1>2, <1>6 DEF CloudInv, Good, SnapIsRecorded
  <1>9. u \in Undisturbed => \A a \in Attempt : snap[u][a] # "running"
    BY <1>2, <1>7 DEF CloudInv, Good, BusyIsActive, Untouched, Undisturbed
  <1>10. InOrder(u)' /\ DeletedIsOver(u)'
    BY <1>2, <1>3, <1>4, <1>6 DEF InOrder, DeletedIsOver, Over
  <1>11. WorkIsActive(u)' /\ HasSnapshot(u)' /\ HasWork(u)'
    BY <1>3, <1>4, <1>6 DEF WorkIsActive, HasSnapshot, HasWork, AtWork, Active, ActiveStatus
  <1>12. SnapIsRecorded(u)'
    BY <1>3, <1>4, <1>8 DEF SnapIsRecorded, Undisturbed
  <1>13. BusyIsActive(u)'
    BY <1>2, <1>3, <1>4, <1>9 DEF BusyIsActive, Undisturbed, Polled, Over
  <1>14. NotForgotten(u)'
    BY <1>3, <1>4, <1>8, <1>9 DEF NotForgotten, Undisturbed
  <1>15. Good(u)'
    BY <1>10, <1>11, <1>12, <1>13, <1>14 DEF Good
  <1>16. GuardKept(u) /\ OverKept(u)
    BY <1>3, <1>4 DEF GuardKept, OverKept, Active, ActiveStatus, Stored
  <1>17. \A v \in Task : victims'[v] \subseteq victims[v]
    BY <1>1 DEF CloudInv, TypeOK
  <1> QED BY <1>2, <1>5, <1>15, <1>16, <1>17, OneTask

\* The poll has nothing left to prune, or gives up what is left.
LEMMA PollEndInv ==
    ASSUME CloudInv, TypeOK', NEW t \in Task, PruneAbort(t) \/ PollEnd(t)
    PROVE  CloudInv'
  <1> USE DEF PruneAbort, PollEnd, SetPoll, row, history
  <1>1. poll[t] = "pruning" /\ poll'[t] = "done"
    BY DEF CloudInv, TypeOK
  <1>2. UNCHANGED <<run, attempt, backup, snap, action, touched, hit>>
    OBVIOUS
  <1>3. \A w \in Task \ {t} : Same(w)
    BY <1>2 DEF Same, CloudInv, TypeOK
  <1>4. \A v \in Task : victims'[v] \subseteq victims[v]
    BY DEF CloudInv, TypeOK
  <1>5. /\ AtWork(t)' <=> AtWork(t)
        /\ Active(t)' <=> Active(t)
        /\ ~ Polled(t) /\ ~ Polled(t)'
    BY <1>1, <1>2 DEF AtWork, Active, Polled
  <1>6. InOrder(t)' /\ DeletedIsOver(t)'
    BY <1>1, <1>2 DEF CloudInv, Good, InOrder, DeletedIsOver, Over
  <1>7. WorkIsActive(t)' /\ HasWork(t)'
    BY <1>2, <1>5 DEF CloudInv, Good, WorkIsActive, HasWork, Untouched, Undisturbed
  <1>8. SnapIsRecorded(t)' /\ BusyIsActive(t)' /\ NotForgotten(t)'
    BY <1>2, <1>5 DEF CloudInv, Good, SnapIsRecorded, BusyIsActive, NotForgotten, Undisturbed
  <1>9. HasSnapshot(t)'
    BY <1>2 DEF CloudInv, Good, HasSnapshot, Untouched, Listed
  <1>10. Good(t)'
    BY <1>6, <1>7, <1>8, <1>9 DEF Good
  <1>11. GuardKept(t) /\ OverKept(t)
    BY <1>1, <1>2, <1>5 DEF GuardKept, OverKept, Over
  <1> QED BY <1>3, <1>4, <1>10, <1>11, OneTask

-----------------------------------------------------------------------------
(* The steps of operators and of the provider.                             *)

\* What an operator touches, nothing more is promised of.
LEMMA TouchInv ==
    ASSUME CloudInv, TypeOK', NEW t \in Task, Cancel(t) \/ Destroy(t)
    PROVE  CloudInv'
  <1> USE DEF Cancel, Destroy, Touch
  <1>1. UNCHANGED <<attempt, action, poll, victims, hit>> /\ touched' = touched \cup {t}
    OBVIOUS
  <1>2. /\ run'[t] = run[t] \/ (run'[t] = "done" /\ run[t] # "done")
        /\ \A w \in Task \ {t} : run'[w] = run[w]
    BY DEF Advance, CloudInv, TypeOK, Working
  <1>3. /\ backup'[t] # "COMPLETE"
        /\ \A w \in Task \ {t} : backup'[w] = backup[w] /\ snap'[w] = snap[w]
    <2>1. CASE Cancel(t)
      BY <2>1 DEF SetRow, CloudInv, TypeOK
    <2>2. CASE Destroy(t)
      BY <2>2, SoftDeleteFacts
    <2> QED BY <2>1, <2>2
  <1>4. \A w \in Task \ {t} : Same(w)
    BY <1>1, <1>2, <1>3 DEF Same
  <1>5. InOrder(t)'
    BY <1>1, <1>2, <1>3 DEF CloudInv, Good, InOrder
  <1>6. t \notin Untouched' /\ t \notin Undisturbed'
    BY <1>1 DEF Untouched, Undisturbed
  <1>7. Good(t)'
    BY <1>5, <1>6
    DEF Good, WorkIsActive, DeletedIsOver, SnapIsRecorded, BusyIsActive, HasSnapshot, NotForgotten,
        HasWork
  <1>8. GuardKept(t) /\ OverKept(t)
    BY <1>1 DEF GuardKept, OverKept
  <1> QED BY <1>1, <1>4, <1>7, <1>8, OneTask

LEMMA FinishInv ==
    ASSUME CloudInv, TypeOK', NEW t \in Task, NEW a \in Attempt, Finish(t, a)
    PROVE  CloudInv'
  <1> USE DEF Finish, row, history
  <1>1. UNCHANGED <<run, attempt, backup, action, poll, victims, touched, hit>>
    OBVIOUS
  <1>2. PICK st \in {"ready", "errored"} : snap' = [snap EXCEPT ![t][a] = st]
    OBVIOUS
  <1>3. /\ \A w \in Task \ {t} : snap'[w] = snap[w]
        /\ \A b \in Attempt : snap'[t][b] = IF b = a THEN st ELSE snap[t][b]
        /\ snap[t][a] = "running"
    BY <1>2 DEF CloudInv, TypeOK
  <1>4. \A w \in Task \ {t} : Same(w)
    BY <1>1, <1>3 DEF Same
  <1>5. /\ AtWork(t)' <=> AtWork(t)
        /\ Active(t)' <=> Active(t)
        /\ Polled(t)' <=> Polled(t)
    BY <1>1 DEF AtWork, Active, Polled
  <1>6. InOrder(t)' /\ WorkIsActive(t)' /\ HasWork(t)'
    BY <1>1, <1>5 DEF CloudInv, Good, InOrder, WorkIsActive, HasWork, Untouched, Undisturbed
  <1>7. DeletedIsOver(t)'
    BY <1>1, <1>3 DEF CloudInv, Good, DeletedIsOver, Untouched
  <1>8. SnapIsRecorded(t)'
    BY <1>1, <1>3 DEF CloudInv, Good, SnapIsRecorded, Undisturbed
  <1>9. BusyIsActive(t)'
    BY <1>1, <1>3, <1>5 DEF CloudInv, Good, BusyIsActive, Undisturbed
  <1>10. HasSnapshot(t)'
    <2>1. Listed(t) \subseteq Listed(t)'
      BY <1>3 DEF Listed
    <2> QED BY <1>1, <2>1 DEF CloudInv, Good, HasSnapshot, Untouched
  <1>11. NotForgotten(t)'
    BY <1>1, <1>3 DEF CloudInv, Good, NotForgotten, Undisturbed
  <1>12. Good(t)'
    BY <1>6, <1>7, <1>8, <1>9, <1>10, <1>11 DEF Good
  <1>13. GuardKept(t) /\ OverKept(t)
    BY <1>1, <1>5 DEF GuardKept, OverKept
  <1> QED BY <1>1, <1>4, <1>12, <1>13, OneTask

\* A pause or resume, and a stuttering step, leave every backup as it is.
LEMMA StillInv ==
    ASSUME CloudInv, TypeOK',
           UNCHANGED <<run, attempt, backup, snap, action, poll, victims, touched, hit>>
    PROVE  CloudInv'
  <1>1. \A w \in Task : Same(w)
    BY DEF Same
  <1>2. \A w \in Task : Good(w)'
    BY <1>1, SameGood DEF CloudInv
  <1>3. OneActiveBackup' /\ VictimsAreStored'
    BY DEF CloudInv, OneActiveBackup, VictimsAreStored, Untouched, Active
  <1> QED BY <1>2, <1>3 DEF CloudInv

LEMMA StepCloudInv == CloudInv /\ [Next]_vars => CloudInv'
  <1> SUFFICES ASSUME CloudInv, [Next]_vars PROVE CloudInv'
    OBVIOUS
  <1> TypeOK'
    BY StepTypeOK DEF CloudInv
  <1>1. ASSUME NEW t \in Task, TaskStep(t) PROVE CloudInv'
    BY <1>1, MoveInv, DropInv, SkipInv, InitiateInv, RequestInv, RecordInv, FailInv, HandInv,
       TimeOutInv
    DEF TaskStep
  <1>2. ASSUME NEW t \in Task, PollStep(t) PROVE CloudInv'
    BY <1>2, PollMoveInv, PollDropInv, PollFailInv, PollCompleteInv, PruneInv, PollEndInv
    DEF PollStep
  <1>3. ASSUME NEW t \in Task, Cancel(t) \/ Destroy(t) PROVE CloudInv'
    BY <1>3, TouchInv
  <1>4. ASSUME NEW t \in Task, CrashRun(t) \/ CrashPoll(t) PROVE CloudInv'
    BY <1>4, DropInv, PollDropInv
  <1>5. ASSUME NEW t \in Task, NEW a \in Attempt, Finish(t, a) PROVE CloudInv'
    BY <1>5, FinishInv
  <1>6. ASSUME NEW status \in NodeStatus, SetNode(status) PROVE CloudInv'
    BY <1>6, StillInv DEF SetNode, row, history
  <1>7. CASE UNCHANGED vars
    BY <1>7, StillInv DEF vars
  <1> QED BY <1>1, <1>2, <1>3, <1>4, <1>5, <1>6, <1>7 DEF Next

LEMMA CloudInvHolds == Spec => []CloudInv
  BY InitCloudInv, StepCloudInv, PTL DEF Spec

-----------------------------------------------------------------------------
(* The checked properties.                                                 *)

\* The guard: two backups that no operator touched are never active together, whatever
\* crashes, refusals, lost replies and pauses they meet.
THEOREM GuardHolds == Spec => []OneActiveBackup
  <1>1. CloudInv => OneActiveBackup
    BY DEF CloudInv
  <1> QED BY <1>1, CloudInvHolds, PTL

\* Of the backups that met no fault, one at most has a task, a poll, or a snapshot that the
\* provider is making: each of the three goes with an active row.
THEOREM OneInFlightHolds == Spec => []OneInFlight
  <1>1. CloudInv => OneInFlight
    <2> SUFFICES ASSUME CloudInv PROVE OneInFlight
      OBVIOUS
    <2>1. \A t \in Undisturbed :
             AtWork(t) \/ Polled(t) \/ (\E a \in Attempt : snap[t][a] = "running") => Active(t)
      BY DEF CloudInv, Good, WorkIsActive, BusyIsActive, Untouched, Undisturbed
    <2> QED BY <2>1 DEF CloudInv, OneActiveBackup, OneInFlight, Untouched, Undisturbed
  <1> QED BY <1>1, CloudInvHolds, PTL

\* COMPLETE stands for a finished snapshot that is still at the provider.
THEOREM CompletesAreKept == Spec => []CompleteHasSnapshot
  <1>1. CloudInv => CompleteHasSnapshot
    BY DEF CloudInv, Good, HasSnapshot, CompleteHasSnapshot, Untouched
  <1> QED BY <1>1, CloudInvHolds, PTL

\* A backup that met no fault and failed, or was deleted, leaves nothing at the provider.
THEOREM NothingIsForgotten == Spec => []NoForgottenSnapshot
  <1>1. CloudInv => NoForgottenSnapshot
    BY DEF CloudInv, Good, NotForgotten, NoForgottenSnapshot, Undisturbed
  <1> QED BY <1>1, CloudInvHolds, PTL

\* A backup that met no fault and holds the guard has a task or a poll to settle it.
THEOREM ActivesHaveWork == Spec => []ActiveHasWork
  <1>1. CloudInv => ActiveHasWork
    BY DEF CloudInv, Good, HasWork, ActiveHasWork, Undisturbed
  <1> QED BY <1>1, CloudInvHolds, PTL

-----------------------------------------------------------------------------
(* What a step can do to the rows.                                         *)

\* A message not yet taken has no row, unless it retries; a touched backup has one; a poll asks
\* the provider only for an active backup, as it reads the row before.
RowRules(t) ==
    /\ run[t] \in {"unsent", "queued", "waiting", "admitted"} /\ attempt[t] = 0 => backup[t] = "none"
    /\ t \in touched => backup[t] # "none"
    /\ t \in Untouched =>
         /\ poll[t] = "asking" => Active(t)
         /\ poll[t] = "queued" => Active(t) \/ backup[t] = "TIMEOUT"

RowInv == \A t \in Task : RowRules(t)

\* A step of backup t leaves the rows, tasks and polls of the others alone.
OthersRest(t) ==
    \A w \in Task \ {t} :
        /\ run'[w] = run[w] /\ attempt'[w] = attempt[w]
        /\ backup'[w] = backup[w] /\ poll'[w] = poll[w]
        /\ w \in touched' <=> w \in touched

\* The kinds of step.
Idle == UNCHANGED <<backup, born, victims, touched>>

Begins(t) ==
    /\ backup[t] = "none"
    /\ ~ OtherActive(t)
    /\ SetRow(t, "IN_PROGRESS")
    /\ born' = [born EXCEPT ![t] = 1 + Cardinality({u \in Task : backup[u] # "none"})]
    /\ UNCHANGED <<victims, touched>>

Works(t) ==
    /\ t \in touched \/ Active(t)
    /\ backup'[t] \in ActiveStatus \cup {"FAILED", "TIMEOUT", "MAX_RETRY_FAILED"}
    /\ \A w \in Task \ {t} : backup'[w] = backup[w]
    /\ UNCHANGED <<born, victims, touched>>

Voids(t) ==
    /\ backup[t] # "none"
    /\ backup'[t] \in {"CANCELLED", "DELETE_COMPLETED", "DELETE_FAILED"}
    /\ \A w \in Task \ {t} : backup'[w] = backup[w]
    /\ touched' = touched \cup {t}
    /\ UNCHANGED <<born, victims>>

Completes(t) == PollComplete(t) /\ (t \in touched \/ Active(t))

Drops == UNCHANGED <<backup, born, touched>> /\ \A v \in Task : victims'[v] \subseteq victims[v]

RowStep ==
    \/ Idle \/ Drops
    \/ \E t \in Task : Begins(t) \/ Works(t) \/ Voids(t) \/ Completes(t) \/ PruneOne(t)

LEMMA OthersRules ==
    ASSUME RowInv, NEW t \in Task, OthersRest(t), RowRules(t)'
    PROVE  RowInv'
  BY DEF RowInv, OthersRest, RowRules, Untouched, Active

LEMMA CloudDomains ==
    ASSUME CloudInv
    PROVE  /\ run \in [Task -> RunState] /\ attempt \in [Task -> Attempt]
           /\ backup \in [Task -> BackupStatus] /\ born \in [Task -> Nat]
           /\ poll \in [Task -> PollState] /\ victims \in [Task -> SUBSET Task]
           /\ touched \in SUBSET Task
  BY DEF CloudInv, TypeOK

\* The task does its work on an active row, and the poll asks only about one.
LEMMA WorkerHasRow ==
    ASSUME CloudInv, RowInv, NEW t \in Task,
           run[t] \in {"initiated", "requested", "handing"} \/ poll[t] = "asking"
    PROVE  t \in touched \/ Active(t)
  BY DEF CloudInv, Good, WorkIsActive, AtWork, RowInv, RowRules, Untouched

LEMMA RowsOfSteps ==
    ASSUME CloudInv, RowInv, [Next]_vars
    PROVE  RowInv' /\ RowStep
  <1> DEFINE Goal == RowInv' /\ RowStep
  <1> USE CloudDomains DEF Advance, SetRow, SetPoll, Disturb, Touch, row, history
  <1>1. ASSUME NEW t \in Task,
               \/ Send(t) \/ Admit(t) \/ TurnAway(t) \/ SkipDuplicate(t) \/ Request(t) \/ RetryRefused(t)
               \/ CrashRun(t)
        PROVE  Goal
    <2>1. Idle /\ OthersRest(t) /\ UNCHANGED <<attempt, poll>>
      BY <1>1 DEF Idle, OthersRest, Send, Admit, TurnAway, SkipDuplicate, Request, RetryRefused, CrashRun
    <2>2. run'[t] \in {"unsent", "queued", "waiting", "admitted"} =>
             run[t] \in {"unsent", "queued", "waiting", "admitted"}
      BY <1>1 DEF Send, Admit, TurnAway, SkipDuplicate, Request, RetryRefused, CrashRun
    <2>3. RowRules(t)'
      BY <2>1, <2>2 DEF Idle, RowInv, RowRules, Untouched, Active
    <2> QED BY <2>1, <2>3, OthersRules DEF RowStep
  <1>2. ASSUME NEW t \in Task, Hand(t) PROVE Goal
    <2>1. Idle /\ OthersRest(t) /\ run'[t] = "done" /\ poll'[t] = "queued"
      BY <1>2 DEF Idle, OthersRest, Hand
    <2>2. t \in touched \/ Active(t)
      BY <1>2, WorkerHasRow DEF Hand, Handing
    <2>3. RowRules(t)'
      BY <2>1, <2>2 DEF Idle, RowInv, RowRules, Untouched, Active
    <2> QED BY <2>1, <2>3, OthersRules DEF RowStep
  <1>3. ASSUME NEW t \in Task, PollRead(t) \/ PollAgain(t) \/ PollAgainRefused(t) \/ PollEnd(t)
        PROVE  Goal
    <2>1. Idle /\ OthersRest(t) /\ UNCHANGED <<run, attempt>>
      BY <1>3 DEF Idle, OthersRest, PollRead, PollAgain, PollAgainRefused, PollEnd
    <2>2. \/ poll'[t] = "done"
          \/ poll[t] = "queued" /\ poll'[t] = "asking" /\ backup[t] # "TIMEOUT"
          \/ poll[t] = "asking" /\ poll'[t] = "queued"
      BY <1>3 DEF PollRead, PollAgain, PollAgainRefused, PollEnd, PollStops
    <2>3. RowRules(t)'
      BY <2>1, <2>2 DEF Idle, RowInv, RowRules, Untouched, Active
    <2> QED BY <2>1, <2>3, OthersRules DEF RowStep
  <1>4. ASSUME NEW t \in Task, PruneAbort(t) \/ CrashPoll(t) PROVE Goal
    <2>1. Drops /\ OthersRest(t) /\ UNCHANGED <<run, attempt>> /\ poll'[t] = "done"
      BY <1>4 DEF Drops, OthersRest, PruneAbort, CrashPoll
    <2>2. RowRules(t)'
      BY <2>1 DEF Drops, RowInv, RowRules
    <2> QED BY <2>1, <2>2, OthersRules DEF RowStep
  <1>5. ASSUME NEW t \in Task, Refuse(t) \/ LoseReply(t) \/ HandRefused(t) PROVE Goal
    <2>1. RetryOrGiveUp(t) /\ UNCHANGED <<born, victims, touched, poll>>
      BY <1>5 DEF Refuse, LoseReply, HandRefused
    <2>2. run[t] \in {"initiated", "requested", "handing"}
      BY <1>5 DEF Refuse, LoseReply, HandRefused, Handing
    <2>3. \/ run'[t] = "waiting" /\ attempt'[t] # 0 /\ backup'[t] = "RETRYING"
          \/ run'[t] = "done" /\ backup'[t] = "MAX_RETRY_FAILED"
      <3>1. attempt[t] \in Nat /\ attempt[t] + 1 # 0
        BY CloudAssumption DEF Attempt
      <3>2. CASE attempt[t] < MaxRetries
        BY <2>1, <3>1, <3>2 DEF RetryOrGiveUp
      <3>3. CASE ~ (attempt[t] < MaxRetries)
        BY <2>1, <3>3 DEF RetryOrGiveUp
      <3> QED BY <3>2, <3>3
    <2>4. OthersRest(t)
      BY <2>1 DEF RetryOrGiveUp, OthersRest
    <2>5. poll'[t] = "none"
      BY <2>1, <2>2, NoPollYet
    <2>6. RowRules(t)'
      BY <2>3, <2>5 DEF RowRules
    <2>7. Works(t)
      BY <2>1, <2>2, <2>3, <2>4, WorkerHasRow DEF Works, OthersRest, ActiveStatus
    <2> QED BY <2>4, <2>6, <2>7, OthersRules DEF RowStep
  <1>6. ASSUME NEW t \in Task, Record(t) \/ TimeOut(t) PROVE Goal
    <2>1. OthersRest(t) /\ UNCHANGED <<born, victims, touched>>
      BY <1>6 DEF OthersRest, Record, TimeOut
    <2>2. run[t] \in {"initiated", "requested", "handing"} /\ run'[t] \in {"handing", "done"}
      BY <1>6 DEF Record, TimeOut, Handing
    <2>3. poll[t] = "none"
      BY <2>2, NoPollYet
    <2>4. \/ backup'[t] = "IN_PROGRESS" /\ poll'[t] = "none"
          \/ backup'[t] = "TIMEOUT" /\ poll'[t] \in {"none", "queued"}
      BY <1>6, <2>3 DEF Record, TimeOut
    <2>5. RowRules(t)'
      BY <2>2, <2>4 DEF RowRules, ActiveStatus
    <2>6. Works(t)
      BY <2>1, <2>2, <2>4, WorkerHasRow DEF Works, OthersRest, ActiveStatus
    <2> QED BY <2>1, <2>5, <2>6, OthersRules DEF RowStep
  <1>7. ASSUME NEW t \in Task, PollTimeOut(t) \/ PollFail(t) PROVE Goal
    <2>1. /\ OthersRest(t) /\ UNCHANGED <<run, attempt, born, victims, touched>>
          /\ poll[t] = "asking" /\ poll'[t] = "done" /\ backup'[t] \in {"TIMEOUT", "FAILED"}
      BY <1>7 DEF OthersRest, PollTimeOut, PollFail
    <2>2. t \in touched \/ Active(t)
      BY <2>1, WorkerHasRow
    <2>3. run[t] = "done"
      BY <2>1 DEF CloudInv, Good, InOrder
    <2>4. RowRules(t)'
      BY <2>1, <2>3 DEF RowRules
    <2>5. Works(t)
      BY <2>1, <2>2 DEF Works, OthersRest
    <2> QED BY <2>1, <2>4, <2>5, OthersRules DEF RowStep
  <1>8. ASSUME NEW t \in Task, Initiate(t) PROVE Goal
    <2>1. /\ OthersRest(t) /\ UNCHANGED <<attempt, victims, touched, poll>>
          /\ run[t] = "admitted" /\ run'[t] = "initiated" /\ backup'[t] = "IN_PROGRESS"
      BY <1>8 DEF OthersRest, Initiate
    <2>2. RowRules(t)'
      BY <2>1 DEF RowInv, RowRules, Active, ActiveStatus
    <2>3. RowInv'
      BY <2>1, <2>2, OthersRules
    <2>4. CASE backup[t] = "none"
      <3>1. Begins(t)
        BY <1>8, <2>4 DEF Initiate, Begins
      <3> QED BY <2>3, <3>1 DEF RowStep
    <2>5. CASE backup[t] # "none"
      <3>1. attempt[t] > 0
        BY <2>1, <2>5, CloudAssumption DEF RowInv, RowRules, Attempt
      <3>2. t \in touched \/ Active(t)
        BY <2>1, <3>1 DEF CloudInv, Good, WorkIsActive, AtWork, Untouched
      <3>3. Works(t)
        BY <1>8, <2>1, <2>5, <3>2 DEF Initiate, Works, OthersRest, ActiveStatus
      <3> QED BY <2>3, <3>3 DEF RowStep
    <2> QED BY <2>4, <2>5
  <1>9. ASSUME NEW t \in Task, PollComplete(t) PROVE Goal
    <2>1. /\ OthersRest(t) /\ UNCHANGED <<run, attempt, touched>>
          /\ poll[t] = "asking" /\ poll'[t] = "pruning" /\ backup'[t] = "COMPLETE"
      BY <1>9 DEF OthersRest, PollComplete
    <2>2. run[t] = "done"
      BY <2>1 DEF CloudInv, Good, InOrder
    <2>3. RowRules(t)'
      BY <2>1, <2>2 DEF RowRules
    <2>4. Completes(t)
      BY <1>9, <2>1, WorkerHasRow DEF Completes
    <2> QED BY <2>1, <2>3, <2>4, OthersRules DEF RowStep
  <1>10. ASSUME NEW t \in Task, PruneOne(t) PROVE Goal
    <2>1. PICK u \in victims[t] : SoftDelete(u)
      BY <1>10 DEF PruneOne
    <2>2. /\ u \in Task /\ poll[u] \in Over
          /\ UNCHANGED <<run, attempt, poll, touched>>
      BY <1>10, <2>1 DEF PruneOne, CloudInv, VictimsAreStored
    <2>3. /\ backup'[u] \in {"DELETE_COMPLETED", "DELETE_FAILED"}
          /\ \A w \in Task \ {u} : backup'[w] = backup[w]
      BY <2>1, <2>2, SoftDeleteFacts
    <2>4. OthersRest(u)
      BY <2>2, <2>3 DEF OthersRest
    <2>5. run[u] = "done"
      BY <2>2 DEF CloudInv, Good, InOrder, Over
    <2>6. RowRules(u)'
      BY <2>2, <2>3, <2>5 DEF RowRules, Over
    <2> QED BY <1>10, <2>2, <2>4, <2>6, OthersRules DEF RowStep
  <1>11. ASSUME NEW t \in Task, Cancel(t) \/ Destroy(t) PROVE Goal
    <2>1. /\ backup[t] # "none" /\ touched' = touched \cup {t}
          /\ UNCHANGED <<attempt, poll, born, victims>>
      BY <1>11 DEF Cancel, Destroy
    <2>2. run'[t] \in {run[t], "done"} /\ \A w \in Task \ {t} : run'[w] = run[w]
      BY <1>11 DEF Cancel, Destroy
    <2>3. /\ backup'[t] \in {"CANCELLED", "DELETE_COMPLETED", "DELETE_FAILED"}
          /\ \A w \in Task \ {t} : backup'[w] = backup[w]
      BY <1>11, SoftDeleteFacts DEF Cancel, Destroy
    <2>4. OthersRest(t)
      BY <2>1, <2>2, <2>3 DEF OthersRest
    <2>5. RowRules(t)'
      BY <2>1, <2>2, <2>3 DEF RowInv, RowRules, Untouched
    <2>6. Voids(t)
      BY <2>1, <2>3 DEF Voids
    <2> QED BY <2>4, <2>5, <2>6, OthersRules DEF RowStep
  <1>12. ASSUME \/ \E t \in Task : \E a \in Attempt : Finish(t, a)
                \/ \E status \in NodeStatus : SetNode(status)
                \/ UNCHANGED vars
         PROVE  Goal
    <2>1. Idle /\ UNCHANGED <<run, attempt, poll>>
      <3>1. ASSUME NEW t \in Task, NEW a \in Attempt, Finish(t, a)
            PROVE  Idle /\ UNCHANGED <<run, attempt, poll>>
        BY <3>1 DEF Idle, Finish
      <3>2. ASSUME NEW status \in NodeStatus, SetNode(status)
            PROVE  Idle /\ UNCHANGED <<run, attempt, poll>>
        BY <3>2 DEF Idle, SetNode
      <3>3. CASE UNCHANGED vars
        BY <3>3 DEF Idle, vars
      <3> QED BY <1>12, <3>1, <3>2, <3>3
    <2>2. RowInv'
      BY <2>1 DEF Idle, RowInv, RowRules, Untouched, Active
    <2> QED BY <2>1, <2>2 DEF RowStep
  <1> QED
    BY <1>1, <1>2, <1>3, <1>4, <1>5, <1>6, <1>7, <1>8, <1>9, <1>10, <1>11, <1>12
    DEF Next, TaskStep, PollStep

LEMMA RowsHold == Spec => []RowInv
  <1>1. Init => RowInv
    BY DEF Init, RowInv, RowRules
  <1>2. CloudInv /\ RowInv /\ [Next]_vars => RowInv'
    BY RowsOfSteps
  <1> QED BY <1>1, <1>2, CloudInvHolds, PTL DEF Spec

-----------------------------------------------------------------------------
(* Whatever retention removes is outnumbered.                              *)

\* Newer backups of the schedule that are complete, or in an operator's hands.
Later(t) == {u \in Scheduled : born[u] > born[t] /\ (u \in touched \/ backup[u] = "COMPLETE")}
Outnumbered(t) == t \in Scheduled /\ KeepLast > 0 /\ Cardinality(Later(t)) >= KeepLast

VictimsAreOutnumbered == \A t \in Task : \A u \in victims[t] \cap Untouched : Outnumbered(u)

\* Retention removes a snapshot only with keep_last newer ones left, and they stay: of those
\* that go later, each has as many that are newer still.
PrunedAreOutnumbered ==
    \A t \in Untouched : backup[t] \in {"DELETE_COMPLETED", "DELETE_FAILED"} => Outnumbered(t)

OutnumberedInv == VictimsAreOutnumbered /\ PrunedAreOutnumbered

LEMMA CountIsNat ==
    ASSUME NEW S \in SUBSET Task
    PROVE  IsFiniteSet(S) /\ Cardinality(S) \in Nat
  <1>1. IsFiniteSet(S)
    BY CloudAssumption, FS_Subset
  <1> QED BY <1>1, FS_CardinalityType

LEMMA StaysOutnumbered ==
    ASSUME NEW t, NEW u, Outnumbered(u), t \in Scheduled, Later(u) \subseteq Later(t)'
    PROVE  Outnumbered(t)'
  <1>1. Later(u) \in SUBSET Task /\ Later(t)' \in SUBSET Task
    BY CloudAssumption DEF Later
  <1>2. Cardinality(Later(u)) <= Cardinality(Later(t)')
    BY <1>1, CountIsNat, FS_Subset
  <1> QED BY <1>1, <1>2, CountIsNat, CloudAssumption DEF Outnumbered

\* A step that prunes nothing takes nothing out of the count.
LEMMA LaterGrows ==
    ASSUME CloudInv, RowInv, RowStep, ~ \E v \in Task : PruneOne(v),
           NEW t \in Task, backup[t] # "none"
    PROVE  Later(t) \subseteq Later(t)'
  <1> USE CloudDomains, CloudAssumption DEF Later, SetRow
  <1> DEFINE Grows == Later(t) \subseteq Later(t)'
  <1>1. CASE Idle \/ Drops
    BY <1>1 DEF Idle, Drops
  <1>2. ASSUME NEW w \in Task, Begins(w) PROVE Grows
    <2>1. \A u \in Task \ {w} : born'[u] = born[u] /\ backup'[u] = backup[u]
      BY <1>2 DEF Begins
    <2>2. w \notin Later(t) /\ t # w /\ touched' = touched
      BY <1>2 DEF Begins, RowInv, RowRules
    <2> QED BY <2>1, <2>2
  <1>3. ASSUME NEW w \in Task, Works(w) \/ Voids(w) PROVE Grows
    <2>1. /\ born' = born /\ touched \subseteq touched'
          /\ w \in touched' \/ backup[w] # "COMPLETE"
          /\ \A u \in Task \ {w} : backup'[u] = backup[u]
      BY <1>3 DEF Works, Voids, Active, ActiveStatus
    <2> QED BY <2>1
  <1>4. ASSUME NEW w \in Task, Completes(w) PROVE Grows
    <2>1. /\ born' = born /\ touched' = touched /\ backup'[w] = "COMPLETE"
          /\ \A u \in Task \ {w} : backup'[u] = backup[u]
      BY <1>4 DEF Completes, PollComplete, history
    <2> QED BY <2>1
  <1> QED BY <1>1, <1>2, <1>3, <1>4 DEF RowStep

\* Pruning u takes u out of the count of t, and leaves in it all that u was counted against.
LEMMA PruneKeepsLater ==
    ASSUME CloudInv, VictimsAreOutnumbered, NEW v \in Task, NEW u \in victims[v],
           NEW t \in Scheduled, Outnumbered(t),
           \A w \in Task \ {u} : backup'[w] = backup[w], UNCHANGED <<born, touched>>
    PROVE  Outnumbered(t)'
  <1> USE CloudDomains, CloudAssumption DEF Later
  <1>1. u \in Task
    OBVIOUS
  <1>2. CASE u \notin Later(t) \/ u \in touched
    <2>1. Later(t) \subseteq Later(t)'
      BY <1>2
    <2> QED BY <2>1, StaysOutnumbered
  <1>3. CASE u \in Later(t) /\ u \notin touched
    <2>1. Outnumbered(u)
      BY <1>1, <1>3 DEF VictimsAreOutnumbered, Untouched
    <2>2. Later(u) \subseteq Later(t)'
      BY <1>1, <1>3
    <2> QED BY <2>1, <2>2, StaysOutnumbered
  <1> QED BY <1>2, <1>3

LEMMA StepOutnumbered ==
    ASSUME CloudInv, RowInv, OutnumberedInv, RowStep
    PROVE  OutnumberedInv'
  <1> USE CloudDomains, CloudAssumption DEF SetRow
  <1>1. CASE \E v \in Task : PruneOne(v)
    <2>1. PICK v \in Task : PruneOne(v)
      BY <1>1
    <2>2. PICK u \in victims[v] : SoftDelete(u) /\ victims' = [victims EXCEPT ![v] = @ \ {u}]
      BY <2>1 DEF PruneOne
    <2>3. UNCHANGED <<born, touched>> /\ u \in Task
      BY <2>1 DEF PruneOne, history
    <2>4. \A w \in Task \ {u} : backup'[w] = backup[w]
      BY <2>2, <2>3, SoftDeleteFacts
    <2>5. \A t \in Task : Outnumbered(t) => Outnumbered(t)'
      <3>1. \A t \in Scheduled : Outnumbered(t) => Outnumbered(t)'
        BY <2>2, <2>3, <2>4, PruneKeepsLater DEF OutnumberedInv
      <3> QED BY <3>1 DEF Outnumbered
    <2>6. u \in Untouched => Outnumbered(u)
      BY <2>2 DEF OutnumberedInv, VictimsAreOutnumbered
    <2>7. \A w \in Task : victims'[w] \subseteq victims[w]
      BY <2>2
    <2>8. VictimsAreOutnumbered'
      BY <2>3, <2>5, <2>7 DEF OutnumberedInv, VictimsAreOutnumbered, Untouched
    <2>9. PrunedAreOutnumbered'
      BY <2>3, <2>4, <2>5, <2>6 DEF OutnumberedInv, PrunedAreOutnumbered, Untouched
    <2> QED BY <2>8, <2>9 DEF OutnumberedInv
  <1>2. CASE ~ \E v \in Task : PruneOne(v)
    <2>1. \A t \in Task : backup[t] # "none" /\ Outnumbered(t) => Outnumbered(t)'
      BY <1>2, LaterGrows, StaysOutnumbered DEF Outnumbered
    <2> DEFINE Still ==
          /\ touched \subseteq touched'
          /\ \A t \in Untouched' : backup'[t] \in {"DELETE_COMPLETED", "DELETE_FAILED"} =>
                backup[t] \in {"DELETE_COMPLETED", "DELETE_FAILED"}
          /\ (\A w \in Task : victims'[w] \subseteq victims[w]) \/ \E w \in Task : PollComplete(w)
    <2>2. Still
      <3> USE DEF Untouched
      <3>1. CASE Idle \/ Drops
        BY <3>1 DEF Idle, Drops
      <3>2. ASSUME NEW w \in Task, Begins(w) \/ Works(w) \/ Voids(w) PROVE Still
        BY <3>2 DEF Begins, Works, Voids, ActiveStatus
      <3>3. ASSUME NEW w \in Task, Completes(w) PROVE Still
        BY <3>3 DEF Completes, PollComplete, history
      <3> QED BY <1>2, <3>1, <3>2, <3>3 DEF RowStep
    <2>3. PrunedAreOutnumbered'
      BY <2>1, <2>2 DEF OutnumberedInv, PrunedAreOutnumbered, Untouched
    <2>4. \A v \in Task : \A u \in victims[v] \cap Untouched : Outnumbered(u) /\ backup[u] # "none"
      BY DEF OutnumberedInv, VictimsAreOutnumbered, CloudInv, VictimsAreStored, Stored
    <2>5. VictimsAreOutnumbered'
      <3>1. CASE \A w \in Task : victims'[w] \subseteq victims[w]
        BY <2>1, <2>2, <2>4, <3>1 DEF VictimsAreOutnumbered, Untouched
      <3>2. ASSUME NEW w \in Task, PollComplete(w) PROVE VictimsAreOutnumbered'
        <4> DEFINE C == {u \in Scheduled : backup'[u] = "COMPLETE"}
        <4>1. \A v \in Task \ {w} : victims'[v] = victims[v]
          BY <3>2 DEF PollComplete
        <4>2. ASSUME NEW u \in victims'[w] PROVE Outnumbered(u)'
          <5> DEFINE D == {x \in C : born[x] > born[u]}
          <5>1. u \in C /\ KeepLast > 0 /\ Cardinality(D) >= KeepLast /\ born' = born
            BY <3>2, <4>2 DEF PollComplete, Excess
          <5>2. D \subseteq Later(u)' /\ D \in SUBSET Task /\ Later(u)' \in SUBSET Task
            BY <5>1 DEF Later
          <5>3. Cardinality(D) <= Cardinality(Later(u)')
            BY <5>2, CountIsNat, FS_Subset
          <5>4. Cardinality(D) \in Nat /\ Cardinality(Later(u)') \in Nat
            BY <5>2, CountIsNat
          <5> HIDE DEF D
          <5> QED BY <5>1, <5>3, <5>4 DEF Outnumbered
        <4>3. ASSUME NEW v \in Task \ {w}, NEW u \in victims'[v] \cap Untouched' PROVE Outnumbered(u)'
          BY <2>1, <2>2, <2>4, <4>1 DEF Untouched
        <4> QED BY <4>2, <4>3 DEF VictimsAreOutnumbered
      <3> QED BY <2>2, <3>1, <3>2
    <2> QED BY <2>3, <2>5 DEF OutnumberedInv
  <1> QED BY <1>1, <1>2

LEMMA OutnumberedHolds == Spec => []OutnumberedInv
  <1>1. Init => OutnumberedInv
    BY DEF Init, OutnumberedInv, VictimsAreOutnumbered, PrunedAreOutnumbered, Untouched
  <1>2. CloudInv /\ RowInv /\ OutnumberedInv /\ [Next]_vars => OutnumberedInv'
    BY RowsOfSteps, StepOutnumbered
  <1> QED BY <1>1, <1>2, RowsHold, CloudInvHolds, PTL DEF Spec

\* A snapshot that retention deleted, or gave up on, is outnumbered for good: the schedule still
\* has keep_last newer ones, or an operator took them.
THEOREM PrunedStayOutnumbered == Spec => []PrunedAreOutnumbered
  <1>1. OutnumberedInv => PrunedAreOutnumbered
    BY DEF OutnumberedInv
  <1> QED BY <1>1, OutnumberedHolds, PTL

-----------------------------------------------------------------------------
(* The promise, step by step.                                              *)

phases == [t \in Task |-> Phase(t)]

LEMMA PhaseFacts ==
    ASSUME NEW t \in Task
    PROVE  /\ t \in touched => Phase(t) = "void"
           /\ t \notin touched =>
                /\ backup[t] = "none" <=> Phase(t) = "idle"
                /\ Active(t) <=> Phase(t) = "running"
                /\ backup[t] = "COMPLETE" <=> Phase(t) = "stored"
                /\ backup[t] \in {"DELETE_COMPLETED", "DELETE_FAILED"} <=> Phase(t) = "pruned"
                /\ backup[t] \in {"FAILED", "TIMEOUT", "MAX_RETRY_FAILED"} => Phase(t) = "failed"
                /\ Phase(t) # "void"
  <1>1. CASE t \in touched
    BY <1>1 DEF Phase
  <1>2. CASE t \notin touched
    BY <1>2 DEF Phase, Active, ActiveStatus
  <1> QED BY <1>1, <1>2

LEMMA OnePhase ==
    ASSUME NEW t \in Task, \A u \in Task \ {t} : backup'[u] = backup[u],
           \A u \in Task \ {t} : u \in touched' <=> u \in touched
    PROVE  phases' = [phases EXCEPT ![t] = Phase(t)']
  <1>1. \A u \in Task \ {t} : Phase(u)' = Phase(u)
    BY DEF Phase, Active
  <1> QED BY <1>1 DEF phases

LEMMA PromiseCounts == ASSUME NEW S PROVE Promise!Cardinality(S) = Cardinality(S)
  BY DEF Promise!Cardinality, Cardinality

LEMMA PromiseStep ==
    ASSUME CloudInv, RowInv, OutnumberedInv, RowStep
    PROVE  [Promise!Next]_<<phases, born>>
  <1> USE CloudDomains DEF SetRow
  <1> DEFINE Goal == Promise!Next \/ UNCHANGED <<phases, born>>
  <1>1. CASE Idle \/ Drops
    BY <1>1 DEF Idle, Drops, phases, Phase, Active
  <1>2. ASSUME NEW t \in Task, Begins(t) PROVE Goal
    <2>1. t \notin touched /\ Phase(t) = "idle"
      BY <1>2, PhaseFacts DEF Begins, RowInv, RowRules
    <2>2. phases' = [phases EXCEPT ![t] = "running"]
      <3>1. Phase(t)' = "running"
        BY <1>2, <2>1 DEF Begins, Phase, Active, ActiveStatus
      <3> QED BY <1>2, <3>1, OnePhase DEF Begins
    <2>3. \A u \in Task : phases[u] # "running"
      BY <1>2, <2>1, PhaseFacts DEF phases, Begins, OtherActive
    <2>4. {u \in Task : phases[u] # "idle"} = {u \in Task : backup[u] # "none"}
      BY PhaseFacts DEF phases, RowInv, RowRules
    <2>5. born' = [born EXCEPT ![t] = 1 + Promise!Cardinality({u \in Task : phases[u] # "idle"})]
      BY <1>2, <2>4, PromiseCounts DEF Begins
    <2>6. phases[t] = "idle"
      BY <2>1 DEF phases
    <2> QED BY <2>2, <2>3, <2>5, <2>6 DEF Promise!Next, Promise!Begin, phases
  <1>3. ASSUME NEW t \in Task, t \notin touched, Active(t), touched' = touched, born' = born,
               \A u \in Task \ {t} : backup'[u] = backup[u],
               backup'[t] \in ActiveStatus \cup {"COMPLETE", "FAILED", "TIMEOUT", "MAX_RETRY_FAILED"}
        PROVE  Goal
    <2>1. phases' = [phases EXCEPT ![t] = Phase(t)'] /\ phases[t] = "running"
      BY <1>3, OnePhase, PhaseFacts DEF phases
    <2>2. Phase(t)' \in {"running", "stored", "failed"}
      BY <1>3 DEF Phase, Active, ActiveStatus
    <2>3. CASE Phase(t)' = "running"
      <3>1. phases' = [phases EXCEPT ![t] = phases[t]]
        BY <2>1, <2>3
      <3>2. phases' = phases
        BY <3>1 DEF phases
      <3> QED BY <1>3, <3>2
    <2>4. CASE Phase(t)' \in {"stored", "failed"}
      BY <1>3, <2>1, <2>4 DEF Promise!Next, Promise!Settle, phases
    <2> QED BY <2>2, <2>3, <2>4
  <1>4. ASSUME NEW t \in Task, t \in touched, touched' = touched, born' = born,
               \A u \in Task \ {t} : backup'[u] = backup[u]
        PROVE  Goal
    <2>1. phases' = [phases EXCEPT ![t] = "void"] /\ phases[t] = "void"
      BY <1>4, OnePhase DEF phases, Phase
    <2> QED BY <1>4, <2>1 DEF phases
  <1>5. ASSUME NEW t \in Task, Works(t) PROVE Goal
    BY <1>3, <1>4, <1>5 DEF Works
  <1>6. ASSUME NEW t \in Task, Completes(t) PROVE Goal
    <2>1. /\ backup'[t] = "COMPLETE" /\ \A u \in Task \ {t} : backup'[u] = backup[u]
          /\ UNCHANGED <<touched, born>>
      BY <1>6 DEF Completes, PollComplete, history
    <2> QED BY <1>3, <1>4, <1>6, <2>1 DEF Completes
  <1>7. ASSUME NEW t \in Task, Voids(t) PROVE Goal
    <2>1. phases' = [phases EXCEPT ![t] = "void"]
      BY <1>7, OnePhase DEF Voids, Phase
    <2>2. phases[t] # "idle"
      BY <1>7, PhaseFacts DEF Voids, phases
    <2> QED BY <1>7, <2>1, <2>2 DEF Voids, Promise!Next, Promise!Void, phases
  <1>8. ASSUME NEW v \in Task, PruneOne(v) PROVE Goal
    <2>1. PICK u \in victims[v] : SoftDelete(u)
      BY <1>8 DEF PruneOne
    <2>2. UNCHANGED <<born, touched>> /\ u \in Task
      BY <1>8 DEF PruneOne, history
    <2>3. /\ backup'[u] \in {"DELETE_COMPLETED", "DELETE_FAILED"}
          /\ \A w \in Task \ {u} : backup'[w] = backup[w]
      BY <2>1, <2>2, SoftDeleteFacts
    <2>4. CASE u \in touched
      BY <1>4, <2>2, <2>3, <2>4
    <2>5. CASE u \notin touched
      <3>1. phases' = [phases EXCEPT ![u] = "pruned"]
        <4>1. Phase(u)' = "pruned"
          BY <2>2, <2>3, <2>5 DEF Phase, Active, ActiveStatus
        <4> QED BY <2>2, <2>3, <4>1, OnePhase
      <3>2. backup[u] \in Stored /\ Outnumbered(u)
        BY <2>2, <2>5 DEF CloudInv, VictimsAreStored, OutnumberedInv, VictimsAreOutnumbered, Untouched
      <3>3. CASE backup[u] \in {"DELETE_COMPLETED", "DELETE_FAILED"}
        <4>1. phases[u] = "pruned"
          BY <2>2, <2>5, <3>3, PhaseFacts DEF phases
        <4> QED BY <2>2, <3>1, <4>1 DEF phases
      <3>4. CASE backup[u] = "COMPLETE"
        <4>1. phases[u] = "stored"
          BY <2>2, <2>5, <3>4, PhaseFacts DEF phases
        <4>2. \A w \in Scheduled : phases[w] \in {"stored", "void"} <=> w \in touched \/ backup[w] = "COMPLETE"
          BY CloudAssumption, PhaseFacts DEF phases
        <4>3. {w \in Scheduled : born[w] > born[u] /\ phases[w] \in {"stored", "void"}} = Later(u)
          BY <4>2 DEF Later
        <4>4. /\ u \in Scheduled /\ KeepLast > 0
              /\ Promise!Cardinality({w \in Scheduled : born[w] > born[u] /\ phases[w] \in {"stored", "void"}})
                    >= KeepLast
          BY <3>2, <4>3, PromiseCounts DEF Outnumbered
        <4> QED BY <2>2, <3>1, <4>1, <4>4 DEF Promise!Next, Promise!Prune, phases
      <3> QED BY <3>2, <3>3, <3>4 DEF Stored
    <2> QED BY <2>4, <2>5
  <1> QED BY <1>1, <1>2, <1>5, <1>6, <1>7, <1>8 DEF RowStep

LEMMA PromiseInit == Init => Promise!Init
  <1> SUFFICES ASSUME Init PROVE Promise!Init
    OBVIOUS
  <1>1. \A t \in Task : Phase(t) = "idle"
    BY PhaseFacts DEF Init
  <1> QED BY <1>1 DEF Promise!Init, Init

\* The cloud pipeline keeps the promise of the file pipeline, whatever it meets: one backup at a
\* time, each settled once, and pruned only while keep_last newer ones of the schedule stay.
THEOREM PipelineKeepsPromise == Spec => ImplementsPromise
  <1>1. CloudInv /\ RowInv /\ OutnumberedInv /\ [Next]_vars
           => [Promise!Next]_<<[t \in Task |-> Phase(t)], born>>
    BY RowsOfSteps, PromiseStep DEF phases
  <1> QED
    BY <1>1, PromiseInit, OutnumberedHolds, RowsHold, CloudInvHolds, PTL
    DEF Spec, ImplementsPromise, Promise!Spec

=============================================================================
