--------------------------- MODULE FileBackup_proofs ---------------------------
(***************************************************************************)
(* Proofs about FileBackup, for any tasks, messages, destinations, retry   *)
(* limits and retention, and for every choice of faults and operators.     *)
(***************************************************************************)
EXTENDS FileBackup, FiniteSetTheorems, TLAPS

-----------------------------------------------------------------------------
(* Types.                                                                  *)

LEMMA CountIsNat ==
    ASSUME NEW S \in SUBSET Task
    PROVE  Cardinality(S) \in Nat
  BY ConstantsAssumption, FS_Subset, FS_CardinalityType

LEMMA TaskOfRun == ASSUME NEW r \in Run PROVE TaskOf[r] \in Task
  BY ConstantsAssumption

LEMMA RunRecordPc ==
    ASSUME NEW x \in RunRecord, NEW p \in RunState
    PROVE  [x EXCEPT !.pc = p] \in RunRecord
  BY DEF RunRecord

LEMMA RunRecordTorn ==
    ASSUME NEW x \in RunRecord, NEW b \in BOOLEAN
    PROVE  [x EXCEPT !.torn = b] \in RunRecord
  BY DEF RunRecord

LEMMA RunRecordAttempt ==
    ASSUME NEW x \in RunRecord, x.attempt < MaxRetries
    PROVE  [x EXCEPT !.attempt = @ + 1] \in RunRecord
  BY ConstantsAssumption DEF RunRecord

LEMMA UploadRecordSt ==
    ASSUME NEW x \in UploadRecord, NEW p \in UploadState
    PROVE  [x EXCEPT !.st = p] \in UploadRecord
  BY DEF UploadRecord

\* A step that moves one message along.
LEMMA PcTyped ==
    ASSUME TypeOK, NEW r \in Run, NEW p \in RunState, run' = [run EXCEPT ![r].pc = p]
    PROVE  run' \in [Run -> RunRecord]
  BY RunRecordPc DEF TypeOK

\* A step that sets the status of one backup.
LEMMA BackupTyped ==
    ASSUME TypeOK, NEW t \in Task, NEW b \in BackupStatus, backup' = [backup EXCEPT ![t] = b]
    PROVE  backup' \in [Task -> BackupStatus]
  BY DEF TypeOK

LEMMA QueueTyped ==
    ASSUME TypeOK, NEW t \in Task, NEW n \in Nat
    PROVE  /\ QueueBoth(t, n) \in [Task -> [SweepKind -> Nat]]
           /\ QueueDir(t) \in [Task -> [SweepKind -> Nat]]
  BY DEF TypeOK, QueueBoth, QueueDir, SweepKind

LEMMA RetryTyped ==
    ASSUME TypeOK, NEW r \in Run, RetryOrGiveUp(r)
    PROVE  run' \in [Run -> RunRecord] /\ backup' \in [Task -> BackupStatus]
  <1>1. run \in [Run -> RunRecord] /\ run[r] \in RunRecord
    BY DEF TypeOK
  <1>2. CASE run[r].attempt < MaxRetries
    <2>1. DEFINE x == [run[r] EXCEPT !.attempt = @ + 1]
    <2>2. x \in RunRecord
      BY <1>1, <1>2, RunRecordAttempt
    <2>3. [x EXCEPT !.pc = "waiting"] \in RunRecord
      BY <2>2, RunRecordPc DEF RunState
    <2>4. [run[r] EXCEPT !.pc = "waiting", !.attempt = run[r].attempt + 1] = [x EXCEPT !.pc = "waiting"]
      BY <1>1 DEF RunRecord
    <2>5. run' = [run EXCEPT ![r] = [run[r] EXCEPT !.pc = "waiting", !.attempt = run[r].attempt + 1]]
      BY <1>2 DEF RetryOrGiveUp
    <2>6. run' \in [Run -> RunRecord]
      BY <1>1, <2>3, <2>4, <2>5
    <2> QED
      BY <1>2, <2>6, TaskOfRun, BackupTyped
      DEF RetryOrGiveUp, BackupStatus, ActiveStatus
  <1>3. CASE ~ (run[r].attempt < MaxRetries)
    BY <1>3, PcTyped, TaskOfRun, BackupTyped
    DEF RetryOrGiveUp, RunState, BackupStatus, TerminalStatus
  <1> QED BY <1>2, <1>3

LEMMA ChordAfterTyped == ASSUME NEW u PROVE ChordAfter(u) \in ChordState
  BY DEF ChordAfter, ChordState

LEMMA SetUploadTyped ==
    ASSUME TypeOK, NEW r \in Run, NEW s \in Storage, NEW st \in UploadState, SetUpload(r, s, st)
    PROVE  up' \in [Run -> [Storage -> UploadRecord]] /\ chord' \in [Run -> ChordState]
  <1>1. up \in [Run -> [Storage -> UploadRecord]]
    BY DEF TypeOK
  <1>2. [up[r][s] EXCEPT !.st = st] \in UploadRecord
    BY <1>1, UploadRecordSt
  <1>3. [up[r] EXCEPT ![s].st = st] \in [Storage -> UploadRecord]
    BY <1>1, <1>2
  <1>4. up' \in [Run -> [Storage -> UploadRecord]]
    BY <1>1, <1>3 DEF SetUpload
  <1>5. chord' \in [Run -> ChordState]
    BY ChordAfterTyped DEF SetUpload, TypeOK
  <1> QED BY <1>4, <1>5

LEMMA SetPointTyped ==
    ASSUME TypeOK, NEW r \in Run, NEW s \in Storage, NEW p \in PointStatus, SetPoint(r, s, p)
    PROVE  point' \in [Task -> [Storage -> PointStatus]]
  BY TaskOfRun DEF SetPoint, TypeOK

LEMMA SoftDeleteTyped ==
    ASSUME TypeOK, NEW t \in Task, NEW F \in SUBSET Storage, SoftDelete(t, F)
    PROVE  /\ backup' \in [Task -> BackupStatus]
           /\ point' \in [Task -> [Storage -> PointStatus]]
           /\ copy' \in [Task -> [Storage -> Content]]
  <1>1. backup' \in [Task -> BackupStatus]
    BY BackupTyped DEF SoftDelete, BackupStatus, TerminalStatus
  <1>2. point' \in [Task -> [Storage -> PointStatus]]
    BY DEF SoftDelete, TypeOK, PointStatus
  <1>3. copy' \in [Task -> [Storage -> Content]]
    BY DEF SoftDelete, TypeOK, Content
  <1> QED BY <1>1, <1>2, <1>3

LEMMA BuildArchiveTyped ==
    ASSUME TypeOK, NEW r \in Run, BuildArchive(r)
    PROVE  /\ zip' \in [Task -> Content]
           /\ onDisk' \in SUBSET Task
           /\ sweeps' \in [Task -> [SweepKind -> Nat]]
  BY TaskOfRun, QueueTyped DEF BuildArchive, TypeOK, Content

LEMMA InitTypeOK == Init => TypeOK
  BY ConstantsAssumption
  DEF Init, TypeOK, NodeStatus, BackupStatus, RunRecord, RunState, UploadRecord, UploadState,
      PointStatus, Content, ChordState

LEMMA StepTypeOK == TypeOK /\ [Next]_vars => TypeOK'
  <1> SUFFICES ASSUME TypeOK, [Next]_vars PROVE TypeOK'
    OBVIOUS
  <1>1. ASSUME NEW r \in Run, Send(r) PROVE TypeOK'
    <2>1. run' \in [Run -> RunRecord]
      BY <1>1, PcTyped DEF Send, RunState
    <2> QED BY <1>1, <2>1 DEF Send, TypeOK
  <1>2. ASSUME NEW r \in Run, TurnAway(r) PROVE TypeOK'
    <2>1. run' \in [Run -> RunRecord]
      BY <1>2, PcTyped DEF TurnAway, RunState
    <2> QED BY <1>2, <2>1 DEF TurnAway, TypeOK
  <1>3. ASSUME NEW r \in Run, SkipDuplicate(r) PROVE TypeOK'
    <2>1. run' \in [Run -> RunRecord]
      BY <1>3, PcTyped DEF SkipDuplicate, RunState
    <2> QED BY <1>3, <2>1 DEF SkipDuplicate, TypeOK
  <1>4. ASSUME NEW r \in Run, Initiate(r) PROVE TypeOK'
    <2>1. run' \in [Run -> RunRecord]
      BY <1>4, PcTyped DEF Initiate, RunState, Working
    <2>2. backup' \in [Task -> BackupStatus]
      BY <1>4, TaskOfRun, BackupTyped DEF Initiate, BackupStatus, ActiveStatus
    <2>3. NextBorn \in Nat
      BY <1>4, CountIsNat DEF Initiate, NextBorn
    <2>4. born' \in [Task -> Nat]
      BY <1>4, <2>3 DEF Initiate, TypeOK
    <2> QED BY <1>4, <2>1, <2>2, <2>3, <2>4 DEF Initiate, TypeOK
  <1>5. ASSUME NEW r \in Run, AttachStorage(r) PROVE TypeOK'
    <2>1. run' \in [Run -> RunRecord]
      BY <1>5, PcTyped DEF AttachStorage, RunState, Working
    <2>2. point' \in [Task -> [Storage -> PointStatus]]
      BY <1>5, TaskOfRun DEF AttachStorage, TypeOK, PointStatus
    <2> QED BY <1>5, <2>1, <2>2 DEF AttachStorage, TypeOK, NodeStatus
  <1>6. ASSUME NEW r \in Run, BeginDump(r) PROVE TypeOK'
    <2>1. run \in [Run -> RunRecord]
      BY DEF TypeOK
    <2> DEFINE x == [run[r] EXCEPT !.torn = FALSE]
    <2>2. x \in RunRecord
      BY <2>1, RunRecordTorn
    <2>3. [x EXCEPT !.pc = "dumping"] \in RunRecord
      BY <2>2, RunRecordPc DEF RunState, Working
    <2>4. [run[r] EXCEPT !.pc = "dumping", !.torn = FALSE] = [x EXCEPT !.pc = "dumping"]
      BY <2>1 DEF RunRecord
    <2>5. run' = [run EXCEPT ![r] = [x EXCEPT !.pc = "dumping"]]
      BY <1>6, <2>4 DEF BeginDump
    <2>6. run' \in [Run -> RunRecord]
      BY <2>1, <2>3, <2>5
    <2>7. backup' \in [Task -> BackupStatus]
      BY <1>6, TaskOfRun, BackupTyped DEF BeginDump, BackupStatus, ActiveStatus
    <2> QED BY <1>6, <2>6, <2>7 DEF BeginDump, TypeOK
  <1>7. ASSUME NEW r \in Run, FailAttempt(r) PROVE TypeOK'
    <2>1. run' \in [Run -> RunRecord] /\ backup' \in [Task -> BackupStatus]
      BY <1>7, RetryTyped DEF FailAttempt
    <2>2. sweeps' \in [Task -> [SweepKind -> Nat]]
      BY <1>7, TaskOfRun, QueueTyped DEF FailAttempt, TypeOK
    <2> QED BY <1>7, <2>1, <2>2 DEF FailAttempt, TypeOK
  <1>8. ASSUME NEW r \in Run, TimeOut(r) PROVE TypeOK'
    <2>1. run' \in [Run -> RunRecord]
      BY <1>8, PcTyped DEF TimeOut, RunState
    <2>2. backup' \in [Task -> BackupStatus]
      BY <1>8, TaskOfRun, BackupTyped DEF TimeOut, BackupStatus, TerminalStatus
    <2>3. sweeps' \in [Task -> [SweepKind -> Nat]]
      BY <1>8, TaskOfRun, QueueTyped DEF TimeOut
    <2> QED BY <1>8, <2>1, <2>2, <2>3 DEF TimeOut, TypeOK, NodeStatus
  <1>9. ASSUME NEW r \in Run, Dispatch(r) PROVE TypeOK'
    <2>1. run' \in [Run -> RunRecord]
      BY <1>9, PcTyped DEF Dispatch, RunState
    <2>2. StatusAfterDump(TaskOf[r]) \in BackupStatus
      BY <1>9 DEF Dispatch, StatusAfterDump, BackupStatus, ActiveStatus
    <2>3. backup' \in [Task -> BackupStatus]
      BY <1>9, <2>2, TaskOfRun, BackupTyped DEF Dispatch
    <2>4. \A q \in Run, s \in Storage : up[q][s] \in UploadRecord
      BY <1>9 DEF Dispatch, TypeOK
    <2>5. \A q \in Run, s \in Storage : [up[q][s] EXCEPT !.st = "queued"] \in UploadRecord
      BY <1>9, <2>4, UploadRecordSt DEF Dispatch, UploadState, UploadLive
    <2>6. up' \in [Run -> [Storage -> UploadRecord]]
      BY <1>9, <2>4, <2>5 DEF Dispatch, TypeOK
    <2>7. chord' \in [Run -> ChordState]
      BY <1>9 DEF Dispatch, TypeOK, ChordState
    <2>8. zip' \in [Task -> Content] /\ onDisk' \in SUBSET Task /\ sweeps' \in [Task -> [SweepKind -> Nat]]
      BY <1>9, BuildArchiveTyped DEF Dispatch
    <2> QED BY <1>9, <2>1, <2>2, <2>3, <2>4, <2>5, <2>6, <2>7, <2>8 DEF Dispatch, TypeOK
  <1>10. ASSUME NEW r \in Run, DispatchRefused(r) PROVE TypeOK'
    <2>1. zip' \in [Task -> Content] /\ onDisk' \in SUBSET Task /\ sweeps' \in [Task -> [SweepKind -> Nat]]
      BY <1>10, BuildArchiveTyped DEF DispatchRefused
    <2>2. Swallow => run' \in [Run -> RunRecord]
      BY <1>10, PcTyped DEF DispatchRefused, RunState
    <2>3. StatusAfterDump(TaskOf[r]) \in BackupStatus
      BY <1>10 DEF DispatchRefused, StatusAfterDump, BackupStatus, ActiveStatus
    <2>4. Swallow => backup' \in [Task -> BackupStatus]
      BY <1>10, <2>3, TaskOfRun, BackupTyped DEF DispatchRefused
    <2>5. ~ Swallow => run' \in [Run -> RunRecord] /\ backup' \in [Task -> BackupStatus]
      BY <1>10, RetryTyped DEF DispatchRefused
    <2> QED BY <1>10, <2>1, <2>2, <2>3, <2>4, <2>5 DEF DispatchRefused, TypeOK
  <1>11. ASSUME NEW r \in Run, SaveNode(r) PROVE TypeOK'
    <2>1. run' \in [Run -> RunRecord]
      BY <1>11, PcTyped DEF SaveNode, RunState
    <2> QED BY <1>11, <2>1 DEF SaveNode, TypeOK, NodeStatus
  <1>12. ASSUME NEW r \in Run, Finalize(r) PROVE TypeOK'
    <2>1. backup' \in [Task -> BackupStatus]
      BY <1>12, TaskOfRun DEF Finalize, TypeOK, BackupStatus, TerminalStatus
    <2>2. Excess(backup') \in SUBSET Task
      BY <1>12, ConstantsAssumption DEF Finalize, Excess, CompleteScheduled
    <2>3. victims' \in [Run -> SUBSET Task]
      BY <1>12, <2>2 DEF Finalize, TypeOK
    <2>4. chord' \in [Run -> ChordState]
      BY <1>12 DEF Finalize, TypeOK, ChordState
    <2> QED BY <1>12, <2>1, <2>2, <2>3, <2>4 DEF Finalize, TypeOK
  <1>13. ASSUME NEW r \in Run, PruneOne(r) PROVE TypeOK'
    <2>1. backup' \in [Task -> BackupStatus] /\ point' \in [Task -> [Storage -> PointStatus]] /\ copy' \in [Task -> [Storage -> Content]]
      BY <1>13, SoftDeleteTyped DEF PruneOne, TypeOK
    <2>2. victims' \in [Run -> SUBSET Task]
      BY <1>13 DEF PruneOne, TypeOK
    <2> QED BY <1>13, <2>1, <2>2 DEF PruneOne, TypeOK
  <1>14. ASSUME NEW r \in Run, FinishFinalize(r) PROVE TypeOK'
    <2>1. sweeps' \in [Task -> [SweepKind -> Nat]]
      BY <1>14, TaskOfRun, QueueTyped DEF FinishFinalize
    <2> QED BY <1>14, <2>1 DEF FinishFinalize, TypeOK, ChordState
  <1>15. ASSUME NEW r \in Run, NEW s \in Storage, PickUp(r, s) PROVE TypeOK'
    <2>1. point' \in [Task -> [Storage -> PointStatus]]
      BY <1>15, SetPointTyped DEF PickUp, PointStatus
    <2>2. up' \in [Run -> [Storage -> UploadRecord]] /\ chord' \in [Run -> ChordState]
      BY <1>15, SetUploadTyped DEF PickUp, UploadState, UploadLive
    <2> QED BY <1>15, <2>1, <2>2 DEF PickUp, TypeOK
  <1>16. ASSUME NEW r \in Run, NEW s \in Storage, Store(r, s) PROVE TypeOK'
    <2>1. point' \in [Task -> [Storage -> PointStatus]]
      BY <1>16, SetPointTyped DEF Store, PointStatus
    <2>2. up' \in [Run -> [Storage -> UploadRecord]] /\ chord' \in [Run -> ChordState]
      BY <1>16, SetUploadTyped DEF Store, UploadState, UploadLive
    <2>3. copy' \in [Task -> [Storage -> Content]]
      BY <1>16, TaskOfRun DEF Store, TypeOK
    <2> QED BY <1>16, <2>1, <2>2, <2>3 DEF Store, TypeOK
  <1>17. ASSUME NEW r \in Run, NEW s \in Storage, Reject(r, s) PROVE TypeOK'
    <2>1. point' \in [Task -> [Storage -> PointStatus]]
      BY <1>17, SetPointTyped DEF Reject, PointStatus
    <2>2. up' \in [Run -> [Storage -> UploadRecord]] /\ chord' \in [Run -> ChordState]
      BY <1>17, SetUploadTyped DEF Reject, UploadState, UploadLive
    <2> QED BY <1>17, <2>1, <2>2 DEF Reject, TypeOK
  <1>18. ASSUME NEW r \in Run, NEW s \in Storage, RetryUpload(r, s) PROVE TypeOK'
    <2>1. point' \in [Task -> [Storage -> PointStatus]]
      BY <1>18, SetPointTyped DEF RetryUpload, PointStatus
    <2>2. CASE up[r][s].tries < MaxUploadRetries
      <3> DEFINE x == [st |-> "waiting", tries |-> up[r][s].tries + 1]
      <3>1. up \in [Run -> [Storage -> UploadRecord]] /\ up[r][s] \in UploadRecord
        BY DEF TypeOK
      <3>2. x \in UploadRecord
        BY <2>2, <3>1, ConstantsAssumption DEF UploadRecord, UploadState, UploadLive
      <3>3. up' = [up EXCEPT ![r] = [up[r] EXCEPT ![s] = x]] /\ chord' = chord
        BY <1>18, <2>2 DEF RetryUpload
      <3>4. [up[r] EXCEPT ![s] = x] \in [Storage -> UploadRecord]
        BY <3>1, <3>2
      <3>5. up' \in [Run -> [Storage -> UploadRecord]]
        BY <3>1, <3>3, <3>4
      <3> QED BY <1>18, <2>1, <3>3, <3>5 DEF RetryUpload, TypeOK
    <2>3. CASE ~ (up[r][s].tries < MaxUploadRetries)
      <3>1. up' \in [Run -> [Storage -> UploadRecord]] /\ chord' \in [Run -> ChordState]
        BY <1>18, <2>3, SetUploadTyped DEF RetryUpload, UploadState
      <3> QED BY <1>18, <2>1, <3>1 DEF RetryUpload, TypeOK
    <2> QED BY <2>2, <2>3
  <1>19. ASSUME NEW r \in Run, NEW s \in Storage, BreakUpload(r, s) PROVE TypeOK'
    <2>1. up' \in [Run -> [Storage -> UploadRecord]] /\ chord' \in [Run -> ChordState]
      BY <1>19, SetUploadTyped DEF BreakUpload, UploadState, UploadLive
    <2> QED BY <1>19, <2>1 DEF BreakUpload, TypeOK
  <1>20. ASSUME NEW t \in Task, NEW k \in SweepKind, Sweep(t, k) PROVE TypeOK'
    <2>1. \A q \in Run : run[q] \in RunRecord
      BY <1>20 DEF Sweep, TypeOK
    <2>2. \A q \in Run : [run[q] EXCEPT !.torn = TRUE] \in RunRecord
      BY <1>20, <2>1, RunRecordTorn DEF Sweep
    <2>3. run' \in [Run -> RunRecord]
      BY <1>20, <2>1, <2>2 DEF Sweep
    <2>4. sweeps' \in [Task -> [SweepKind -> Nat]]
      BY <1>20 DEF Sweep, TypeOK
    <2> QED BY <1>20, <2>1, <2>2, <2>3, <2>4 DEF Sweep, TypeOK
  <1>21. ASSUME NEW status \in NodeStatus, SetNode(status) PROVE TypeOK'
    BY <1>21 DEF SetNode, TypeOK
  <1>22. ASSUME MoveGate PROVE TypeOK'
    BY <1>22 DEF MoveGate, TypeOK
  <1>23. ASSUME NEW t \in Task, Cancel(t) PROVE TypeOK'
    <2>1. \A q \in Run : run[q] \in RunRecord
      BY <1>23 DEF Cancel, TypeOK
    <2>2. \A q \in Run : [run[q] EXCEPT !.pc = "done"] \in RunRecord
      BY <1>23, <2>1, RunRecordPc DEF Cancel, RunState
    <2>3. run' \in [Run -> RunRecord]
      BY <1>23, <2>1, <2>2 DEF Cancel
    <2>4. backup' \in [Task -> BackupStatus]
      BY <1>23, BackupTyped DEF Cancel, BackupStatus, TerminalStatus
    <2>5. point' \in [Task -> [Storage -> PointStatus]]
      BY <1>23 DEF Cancel, TypeOK, PointStatus
    <2>6. \A q \in Run, s \in Storage : up[q][s] \in UploadRecord
      BY <1>23 DEF Cancel, TypeOK
    <2>7. \A q \in Run, s \in Storage : [up[q][s] EXCEPT !.st = "broken"] \in UploadRecord
      BY <1>23, <2>6, UploadRecordSt DEF Cancel, UploadState
    <2>8. up' \in [Run -> [Storage -> UploadRecord]]
      BY <1>23, <2>6, <2>7 DEF Cancel
    <2>9. chord' \in [Run -> ChordState]
      BY <1>23, ChordAfterTyped DEF Cancel, TypeOK
    <2>10. sweeps' \in [Task -> [SweepKind -> Nat]]
      BY <1>23, QueueTyped DEF Cancel
    <2> QED BY <1>23, <2>1, <2>2, <2>3, <2>4, <2>5, <2>6, <2>7, <2>8, <2>9, <2>10 DEF Cancel, TypeOK, NodeStatus
  <1>24. ASSUME NEW t \in Task, Destroy(t) PROVE TypeOK'
    <2>1. backup' \in [Task -> BackupStatus] /\ point' \in [Task -> [Storage -> PointStatus]] /\ copy' \in [Task -> [Storage -> Content]]
      BY <1>24, SoftDeleteTyped DEF Destroy
    <2> QED BY <1>24, <2>1 DEF Destroy, TypeOK
  <1>25. ASSUME NEW r \in Run, Resend(r) PROVE TypeOK'
    <2>1. run' \in [Run -> RunRecord]
      BY <1>25, PcTyped DEF Resend, RunState
    <2>2. touched' \in SUBSET Task
      BY <1>25, TaskOfRun DEF Resend, TypeOK
    <2> QED BY <1>25, <2>1, <2>2 DEF Resend, TypeOK
  <1>26. ASSUME NEW r \in Run, CrashRun(r) PROVE TypeOK'
    <2>1. run' \in [Run -> RunRecord]
      BY <1>26, PcTyped DEF CrashRun, RunState
    <2> QED BY <1>26, <2>1 DEF CrashRun, TypeOK
  <1>27. ASSUME NEW r \in Run, NEW s \in Storage, CrashUpload(r, s) PROVE TypeOK'
    <2>1. up \in [Run -> [Storage -> UploadRecord]]
      BY DEF TypeOK
    <2>2. [up[r][s] EXCEPT !.st = "lost"] \in UploadRecord
      BY <2>1, UploadRecordSt DEF UploadState
    <2>3. [up[r] EXCEPT ![s].st = "lost"] \in [Storage -> UploadRecord]
      BY <2>1, <2>2
    <2>4. up' \in [Run -> [Storage -> UploadRecord]]
      BY <1>27, <2>1, <2>3 DEF CrashUpload
    <2> QED BY <1>27, <2>4 DEF CrashUpload, TypeOK
  <1>28. ASSUME NEW r \in Run, CrashFinalize(r) PROVE TypeOK'
    BY <1>28 DEF CrashFinalize, TypeOK, ChordState
  <1>29. CASE UNCHANGED vars
    BY <1>29 DEF vars, TypeOK
  <1> QED
    BY <1>1, <1>2, <1>3, <1>4, <1>5, <1>6, <1>7, <1>8, <1>9, <1>10, <1>11, <1>12, <1>13, <1>14, <1>15,
       <1>16, <1>17, <1>18, <1>19, <1>20, <1>21, <1>22, <1>23, <1>24, <1>25, <1>26, <1>27, <1>28, <1>29
    DEF Next, RunStep, UploadStep, FinalizeStep, OperatorStep, CrashStep

\* Every reachable state is well formed: no retry counter passes its limit, no pending sweep
\* is counted below zero, and statuses stay within those the code assigns.
THEOREM TypeCorrect == Spec => []TypeOK
  BY InitTypeOK, StepTypeOK, PTL DEF Spec

-----------------------------------------------------------------------------
(* The duplicate guard.                                                    *)
(*                                                                         *)
(* GuardInv is inductive.  A step is judged by what it may do to the few   *)
(* facts GuardInv speaks of: GuardRespected.  GuardStep shows that such a  *)
(* step preserves GuardInv, StepGuardRespected that every step is such a   *)
(* step.                                                                   *)

\* What a step must respect to preserve GuardInv.
GuardRespected ==
    /\ touched \subseteq touched'
    /\ \A t \in Untouched' : Active(t)' =>
          Active(t) \/ \A u \in Untouched' \ {t} : ~ Active(u)'
    /\ \A r \in Run : TaskOf[r] \in Untouched' /\ AtWork(r)' => AtWork(r) \/ Active(TaskOf[r])'
    /\ \A t \in Untouched' : Active(t) /\ ~ Active(t)' => \A r \in RunsOf(t) : ~ AtWork(r)'
    /\ \A r \in Run : TaskOf[r] \in Untouched' /\ run[r].pc = "unsent" /\ run'[r].pc # "unsent" =>
          \A q \in RunsOf(TaskOf[r]) \ {r} : run'[q].pc = "unsent"
    /\ \A r \in Run : chord[r] # "none" => chord'[r] # "none"
    /\ \A r \in Run : chord'[r] # "none" => run'[r].pc \in {"dispatched", "done"}
    /\ \A r \in Run, s \in Storage : up'[r][s].st # "idle" => up[r][s].st # "idle" \/ chord'[r] # "none"
    /\ \A t \in Untouched' : backup'[t] = "COMPLETE" => backup[t] = "COMPLETE" \/ Chorded(t)'
    /\ \A r \in Run : \A t \in victims'[r] \cap Untouched' :
          t \in victims[r] \/ backup'[t] = "COMPLETE"

LEMMA GuardStep == ASSUME GuardInv, GuardRespected PROVE GuardInv'
  <1> USE TaskOfRun DEF GuardInv, GuardRespected
  <1>0. Untouched' \subseteq Untouched
    BY DEF Untouched
  <1>1. OneActiveBackup'
    BY <1>0 DEF OneActiveBackup
  <1>2. WorkIsActive'
    BY <1>0 DEF WorkIsActive, RunsOf
  <1>3. OneRun'
    BY <1>0 DEF OneRun, RunsOf
  <1>4. ChordAfterWork'
    BY DEF ChordAfterWork
  <1>5. \A t \in Untouched' : Chorded(t) => Chorded(t)'
    BY DEF Chorded, RunsOf
  <1>6. CompleteIsChorded'
    BY <1>0, <1>5 DEF CompleteIsChorded
  <1>7. VictimsAreChorded'
    BY <1>0, <1>5, <1>6 DEF VictimsAreChorded, CompleteIsChorded
  <1>8. UploadIsChorded'
    BY DEF UploadIsChorded
  <1> QED BY <1>1, <1>2, <1>3, <1>4, <1>6, <1>7, <1>8

LEMMA Domains ==
    ASSUME TypeOK
    PROVE  /\ run \in [Run -> RunRecord] /\ backup \in [Task -> BackupStatus]
           /\ chord \in [Run -> ChordState] /\ victims \in [Run -> SUBSET Task]
           /\ up \in [Run -> [Storage -> UploadRecord]] /\ touched \in SUBSET Task
  BY DEF TypeOK

LEMMA PcMoved ==
    ASSUME TypeOK, NEW r \in Run, NEW p, run' = [run EXCEPT ![r].pc = p]
    PROVE  run'[r].pc = p /\ \A q \in Run \ {r} : run'[q] = run[q]
  BY DEF TypeOK, RunRecord

LEMMA RetryMoved ==
    ASSUME TypeOK, NEW r \in Run, RetryOrGiveUp(r)
    PROVE  /\ \A q \in Run \ {r} : run'[q] = run[q]
           /\ \/ run'[r].pc = "waiting" /\ backup' = [backup EXCEPT ![TaskOf[r]] = "RETRYING"]
              \/ run'[r].pc = "done" /\ backup' = [backup EXCEPT ![TaskOf[r]] = "MAX_RETRY_FAILED"]
  <1>1. CASE run[r].attempt < MaxRetries
    <2> DEFINE x == [run[r] EXCEPT !.pc = "waiting", !.attempt = run[r].attempt + 1]
    <2>1. run' = [run EXCEPT ![r] = x]
      BY <1>1 DEF RetryOrGiveUp
    <2>2. x.pc = "waiting"
      BY DEF TypeOK, RunRecord
    <2>3. run'[r] = x /\ \A q \in Run \ {r} : run'[q] = run[q]
      BY <2>1, Domains
    <2> QED BY <1>1, <2>2, <2>3 DEF RetryOrGiveUp
  <1>2. CASE ~ (run[r].attempt < MaxRetries)
    BY <1>2, PcMoved DEF RetryOrGiveUp
  <1> QED BY <1>1, <1>2

\* A step of an upload.
LEMMA UploadMoved ==
    ASSUME TypeOK, NEW r \in Run, NEW s \in Storage, NEW st, SetUpload(r, s, st)
    PROVE  /\ \A q \in Run \ {r} : up'[q] = up[q] /\ chord'[q] = chord[q]
           /\ \A z \in Storage \ {s} : up'[r][z] = up[r][z]
           /\ chord'[r] # "none"
  BY Domains DEF SetUpload, ChordAfter

LEMMA RetryRespectsGuard ==
    ASSUME TypeOK, GuardInv, NEW r \in Run, run[r].pc \in Working, RetryOrGiveUp(r),
           UNCHANGED <<up, chord, victims, touched>>
    PROVE  GuardRespected
  <1> DEFINE t == TaskOf[r]
  <1> USE Domains, TaskOfRun DEF GuardInv, Untouched, AtWork, RunsOf
  <1>1. /\ \A q \in Run \ {r} : run'[q] = run[q]
        /\ \A u \in Task \ {t} : backup'[u] = backup[u]
        /\ \/ run'[r].pc = "waiting" /\ backup'[t] = "RETRYING"
           \/ run'[r].pc = "done" /\ backup'[t] = "MAX_RETRY_FAILED"
    BY RetryMoved
  <1>2. t \in Untouched => Active(t)
    BY DEF WorkIsActive
  <1>3. t \in Untouched => \A q \in RunsOf(t) \ {r} : run[q].pc = "unsent"
    BY DEF OneRun, Working
  <1>4. chord[r] = "none"
    BY DEF ChordAfterWork, Working
  <1>5. \A q \in Run : chord'[q] # "none" => run'[q].pc \in {"dispatched", "done"}
    BY <1>1, <1>4 DEF ChordAfterWork
  <1>6. CASE run'[r].pc = "waiting" /\ backup'[t] = "RETRYING"
    BY <1>1, <1>2, <1>3, <1>5, <1>6 DEF GuardRespected, Active, ActiveStatus, Working
  <1>7. CASE run'[r].pc = "done" /\ backup'[t] = "MAX_RETRY_FAILED"
    <2>1. ~ Active(t)' /\ \A u \in Task \ {t} : backup'[u] = backup[u]
      BY <1>1, <1>7 DEF Active, ActiveStatus
    <2>2. ~ AtWork(r)' /\ \A q \in Run \ {r} : run'[q] = run[q]
      BY <1>1, <1>7 DEF Working
    <2>3. t \in Untouched => \A q \in RunsOf(t) : ~ AtWork(q)'
      BY <1>3, <2>2 DEF Working
    <2>4. backup'[t] # "COMPLETE" /\ run[r].pc # "unsent"
      BY <1>7 DEF Working
    <2> QED BY <1>5, <2>1, <2>2, <2>3, <2>4 DEF GuardRespected, Active
  <1> QED BY <1>1, <1>6, <1>7

LEMMA StepGuardRespected == TypeOK /\ GuardInv /\ [Next]_vars => GuardRespected
  <1> SUFFICES ASSUME TypeOK, GuardInv, [Next]_vars PROVE GuardRespected
    OBVIOUS
  <1> USE Domains, TaskOfRun DEF GuardRespected, GuardInv, Untouched, AtWork, Active, Working, RunsOf
  <1>1. ASSUME NEW r \in Run, Send(r) PROVE GuardRespected
    BY <1>1, PcMoved DEF Send, ChordAfterWork, Sent
  <1>2. ASSUME NEW r \in Run, TurnAway(r) PROVE GuardRespected
    BY <1>2, PcMoved DEF TurnAway, ChordAfterWork
  <1>3. ASSUME NEW r \in Run, SkipDuplicate(r) PROVE GuardRespected
    BY <1>3, PcMoved DEF SkipDuplicate, ChordAfterWork
  <1>4. ASSUME NEW r \in Run, Initiate(r) PROVE GuardRespected
    BY <1>4, PcMoved DEF Initiate, ChordAfterWork, OtherActive, ActiveStatus
  <1>5. ASSUME NEW r \in Run, AttachStorage(r) PROVE GuardRespected
    BY <1>5, PcMoved DEF AttachStorage, ChordAfterWork
  <1>6. ASSUME NEW r \in Run, BeginDump(r) PROVE GuardRespected
    BY <1>6 DEF BeginDump, ChordAfterWork, WorkIsActive, ActiveStatus, RunRecord
  <1>7. ASSUME NEW r \in Run, FailAttempt(r) PROVE GuardRespected
    BY <1>7, RetryRespectsGuard DEF FailAttempt
  <1>8. ASSUME NEW r \in Run, TimeOut(r) PROVE GuardRespected
    <2>1. /\ run[r].pc \in Working \cup {"dispatched"} /\ run'[r].pc = "done"
          /\ \A q \in Run \ {r} : run'[q] = run[q]
      BY <1>8, PcMoved DEF TimeOut
    <2>2. /\ backup' = [backup EXCEPT ![TaskOf[r]] = "TIMEOUT"]
          /\ UNCHANGED <<up, chord, victims, touched>>
      BY <1>8 DEF TimeOut
    <2>3. ~ Active(TaskOf[r])' /\ backup'[TaskOf[r]] # "COMPLETE"
      BY <2>2 DEF ActiveStatus
    <2>4. ~ AtWork(r)' /\ run[r].pc # "unsent"
      BY <2>1
    <2>5. TaskOf[r] \in Untouched => \A q \in RunsOf(TaskOf[r]) : ~ AtWork(q)'
      BY <2>1, <2>4 DEF OneRun
    <2>6. \A u \in Task \ {TaskOf[r]} : backup'[u] = backup[u]
      BY <2>2
    <2>7. \A q \in Run : chord'[q] # "none" => run'[q].pc \in {"dispatched", "done"}
      BY <2>1, <2>2 DEF ChordAfterWork
    <2>8. UNCHANGED <<up, chord, victims, touched>>
      BY <2>2
    <2> HIDE DEF GuardInv, ActiveStatus
    <2> QED BY <2>1, <2>3, <2>4, <2>5, <2>6, <2>7, <2>8
  <1>9. ASSUME NEW r \in Run, Dispatch(r) PROVE GuardRespected
    BY <1>9, PcMoved DEF Dispatch, ChordAfterWork, WorkIsActive, StatusAfterDump, ActiveStatus
  <1>10. ASSUME NEW r \in Run, DispatchRefused(r) PROVE GuardRespected
    <2>1. CASE Swallow
      <3>1. /\ run[r].pc = "dumping" /\ run'[r].pc = "dispatched"
            /\ \A q \in Run \ {r} : run'[q] = run[q]
        BY <1>10, <2>1, PcMoved DEF DispatchRefused
      <3>2. UNCHANGED <<up, chord, victims, touched>>
        BY <1>10 DEF DispatchRefused
      <3>3. /\ \A u \in Task \ {TaskOf[r]} : backup'[u] = backup[u]
            /\ backup'[TaskOf[r]] \in ActiveStatus \ {"COMPLETE"}
        BY <1>10, <2>1 DEF DispatchRefused, StatusAfterDump, ActiveStatus
      <3>4. TaskOf[r] \in Untouched => Active(TaskOf[r])
        BY <3>1 DEF WorkIsActive
      <3> QED BY <3>1, <3>2, <3>3, <3>4 DEF ActiveStatus, ChordAfterWork
    <2>2. CASE ~ Swallow
      BY <1>10, <2>2, RetryRespectsGuard DEF DispatchRefused
    <2> QED BY <2>1, <2>2
  <1>11. ASSUME NEW r \in Run, SaveNode(r) PROVE GuardRespected
    BY <1>11, PcMoved DEF SaveNode, ChordAfterWork
  <1>12. ASSUME NEW r \in Run, Finalize(r) PROVE GuardRespected
    <2> DEFINE t == TaskOf[r]
    <2>1. run' = run /\ up' = up /\ touched' = touched
      BY <1>12 DEF Finalize
    <2>2. /\ chord[r] # "none" /\ chord'[r] # "none"
          /\ \A q \in Run \ {r} : chord'[q] = chord[q]
      BY <1>12 DEF Finalize
    <2>3. /\ \A u \in Task \ {t} : backup'[u] = backup[u]
          /\ backup'[t] \in {"COMPLETE", "UPLOAD_FAILED"}
      BY <1>12 DEF Finalize
    <2>4. \A q \in RunsOf(t) : t \in Untouched => ~ AtWork(q)
      BY <2>2 DEF ChordAfterWork, OneRun
    <2>5. Chorded(t)'
      BY <2>2 DEF Chorded
    <2>6. /\ \A q \in Run \ {r} : victims'[q] = victims[q]
          /\ \A u \in victims'[r] : backup'[u] = "COMPLETE"
      BY <1>12 DEF Finalize, Excess, CompleteScheduled
    <2> QED BY <2>1, <2>2, <2>3, <2>4, <2>5, <2>6 DEF ActiveStatus, ChordAfterWork
  <1>13. ASSUME NEW r \in Run, PruneOne(r) PROVE GuardRespected
    <2>1. run' = run /\ up' = up /\ touched' = touched /\ chord' = chord
      BY <1>13 DEF PruneOne
    <2>2. PICK u \in victims[r] : /\ backup' = [backup EXCEPT ![u] = "DELETE_COMPLETED"]
                                  /\ victims' = [victims EXCEPT ![r] = @ \ {u}]
      BY <1>13 DEF PruneOne, SoftDelete
    <2>3. /\ u \in Task /\ backup'[u] = "DELETE_COMPLETED"
          /\ \A t \in Task \ {u} : backup'[t] = backup[t]
      BY <2>2
    <2>4. u \in Untouched => \A q \in RunsOf(u) : ~ AtWork(q)
      BY DEF VictimsAreChorded, Chorded, ChordAfterWork, OneRun
    <2>5. \A q \in Run : victims'[q] \subseteq victims[q]
      BY <2>2
    <2> QED BY <2>1, <2>3, <2>4, <2>5 DEF ActiveStatus, ChordAfterWork
  <1>14. ASSUME NEW r \in Run, FinishFinalize(r) PROVE GuardRespected
    BY <1>14 DEF FinishFinalize, ChordAfterWork
  <1>15. ASSUME NEW r \in Run, NEW s \in Storage, PickUp(r, s) PROVE GuardRespected
    BY <1>15, UploadMoved DEF PickUp, ChordAfterWork, UploadIsChorded, UploadLive
  <1>16. ASSUME NEW r \in Run, NEW s \in Storage, Store(r, s) PROVE GuardRespected
    BY <1>16, UploadMoved DEF Store, ChordAfterWork, UploadIsChorded, UploadLive
  <1>17. ASSUME NEW r \in Run, NEW s \in Storage, Reject(r, s) PROVE GuardRespected
    BY <1>17, UploadMoved DEF Reject, ChordAfterWork, UploadIsChorded, UploadLive
  <1>18. ASSUME NEW r \in Run, NEW s \in Storage, RetryUpload(r, s) PROVE GuardRespected
    <2>1. CASE up[r][s].tries < MaxUploadRetries
      BY <1>18, <2>1 DEF RetryUpload, ChordAfterWork, UploadIsChorded, UploadLive, UploadRecord
    <2>2. CASE ~ (up[r][s].tries < MaxUploadRetries)
      BY <1>18, <2>2, UploadMoved DEF RetryUpload, ChordAfterWork, UploadIsChorded, UploadLive
    <2> QED BY <2>1, <2>2
  <1>19. ASSUME NEW r \in Run, NEW s \in Storage, BreakUpload(r, s) PROVE GuardRespected
    BY <1>19, UploadMoved DEF BreakUpload, ChordAfterWork, UploadIsChorded, UploadLive
  <1>20. ASSUME NEW t \in Task, NEW k \in SweepKind, Sweep(t, k) PROVE GuardRespected
    BY <1>20 DEF Sweep, ChordAfterWork, RunRecord
  <1>21. ASSUME NEW status \in NodeStatus, SetNode(status) PROVE GuardRespected
    BY <1>21 DEF SetNode, ChordAfterWork
  <1>22. ASSUME MoveGate PROVE GuardRespected
    BY <1>22 DEF MoveGate, ChordAfterWork
  <1>23. ASSUME NEW t \in Task, Cancel(t) PROVE GuardRespected
    <2>1. touched' = touched \cup {t} /\ victims' = victims
      BY <1>23 DEF Cancel
    <2>2. \A u \in Task \ {t} : backup'[u] = backup[u]
      BY <1>23 DEF Cancel
    <2>3. PICK K \in Reached(Revocable(t)) :
            run' = [r \in Run |-> IF r \in K THEN [run[r] EXCEPT !.pc = "done"] ELSE run[r]]
      BY <1>23 DEF Cancel
    <2>4. K \subseteq Revocable(t)
      BY DEF Reached
    <2>5. \A r \in Run : run'[r] = run[r] \/ (run[r].pc # "unsent" /\ run'[r].pc = "done")
      BY <2>3, <2>4 DEF Revocable, RunRecord
    <2>6. PICK U \in Reached(RevocableUploads(t)) :
            up' = [r \in Run |-> [s \in Storage |->
                     IF <<r, s>> \in U THEN [up[r][s] EXCEPT !.st = "broken"] ELSE up[r][s]]]
      BY <1>23 DEF Cancel
    <2>7. U \subseteq RevocableUploads(t)
      BY DEF Reached
    <2>8. \A r \in Run, s \in Storage : up'[r][s] = up[r][s] \/ up[r][s].st # "idle"
      BY <2>6, <2>7 DEF RevocableUploads
    <2>9. \A r \in Run : chord'[r] = chord[r] \/ (chord[r] # "none" /\ chord'[r] # "none")
      BY <1>23 DEF Cancel, ChordAfter
    <2> QED BY <2>1, <2>2, <2>5, <2>8, <2>9 DEF ChordAfterWork
  <1>24. ASSUME NEW t \in Task, Destroy(t) PROVE GuardRespected
    BY <1>24 DEF Destroy, ChordAfterWork, SoftDelete
  <1>25. ASSUME NEW r \in Run, Resend(r) PROVE GuardRespected
    BY <1>25, PcMoved DEF Resend, ChordAfterWork
  <1>26. ASSUME NEW r \in Run, CrashRun(r) PROVE GuardRespected
    BY <1>26, PcMoved DEF CrashRun, ChordAfterWork
  <1>27. ASSUME NEW r \in Run, NEW s \in Storage, CrashUpload(r, s) PROVE GuardRespected
    BY <1>27 DEF CrashUpload, ChordAfterWork
  <1>28. ASSUME NEW r \in Run, CrashFinalize(r) PROVE GuardRespected
    BY <1>28 DEF CrashFinalize, ChordAfterWork
  <1>29. CASE UNCHANGED vars
    BY <1>29 DEF vars, ChordAfterWork
  <1> QED
    BY <1>1, <1>2, <1>3, <1>4, <1>5, <1>6, <1>7, <1>8, <1>9, <1>10, <1>11, <1>12, <1>13, <1>14, <1>15,
       <1>16, <1>17, <1>18, <1>19, <1>20, <1>21, <1>22, <1>23, <1>24, <1>25, <1>26, <1>27, <1>28, <1>29
    DEF Next, RunStep, UploadStep, FinalizeStep, OperatorStep, CrashStep

LEMMA InitGuardInv == Init => GuardInv
  <1> SUFFICES ASSUME Init PROVE GuardInv
    OBVIOUS
  <1>1. /\ \A r \in Run : run[r].pc = "unsent" /\ chord[r] = "none" /\ victims[r] = {}
        /\ \A r \in Run, s \in Storage : up[r][s].st = "idle"
    BY DEF Init
  <1>2. \A t \in Task : backup[t] = "none"
    BY DEF Init
  <1>3. OneActiveBackup /\ CompleteIsChorded
    BY <1>2 DEF OneActiveBackup, CompleteIsChorded, Active, ActiveStatus, Untouched
  <1>4. WorkIsActive /\ OneRun /\ ChordAfterWork
    BY <1>1 DEF WorkIsActive, OneRun, ChordAfterWork, AtWork, Working
  <1>5. UploadIsChorded /\ VictimsAreChorded
    BY <1>1 DEF UploadIsChorded, VictimsAreChorded
  <1> QED BY <1>3, <1>4, <1>5 DEF GuardInv

\* The reason the guard of backup_initiate is enough: it reads only the status of rows, and in
\* every reachable state a run at work has an active row, an untouched task has one run, and
\* only a run that started its chord leaves work for others behind.
THEOREM GuardHolds == Spec => []GuardInv
  <1>1. TypeOK /\ GuardInv /\ [Next]_vars => GuardInv'
    BY StepGuardRespected, GuardStep
  <1> QED BY <1>1, InitGuardInv, TypeCorrect, PTL DEF Spec

\* The duplicate guard of backup_initiate: at most one of the node's backups that no operator
\* touched is in an active status, whatever workers, brokers and operators do.
THEOREM OneActiveBackupHolds == Spec => []OneActiveBackup
  <1>1. GuardInv => OneActiveBackup
    BY DEF GuardInv
  <1> QED BY <1>1, GuardHolds, PTL

\* Two untouched tasks never dump the node, or wait to dump it again, at the same time.
THEOREM SingleFlightHolds == Spec => []SingleFlight
  <1>1. GuardInv => SingleFlight
    BY TaskOfRun DEF GuardInv, OneActiveBackup, WorkIsActive, SingleFlight, Dumping, RunsOf
  <1> QED BY <1>1, GuardHolds, PTL

=============================================================================
