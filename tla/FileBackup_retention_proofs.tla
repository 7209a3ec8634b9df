---------------------- MODULE FileBackup_retention_proofs -----------------------
(***************************************************************************)
(* The schedule's retention, and the promise that FileBackup implements.   *)
(* Both are about rows only: RowStep says what a step can do to them.      *)
(***************************************************************************)
EXTENDS FileBackup_outcome_proofs

-----------------------------------------------------------------------------
(* What a step can do to the rows.                                         *)

\* Whatever acts on a backup, its row exists.
RowExists ==
    /\ \A r \in Run : run[r].pc \in Working \cup {"waiting", "dispatched"} => backup[TaskOf[r]] # "none"
    /\ \A r \in Run : chord[r] # "none" => backup[TaskOf[r]] # "none"
    /\ \A r \in Run : \A t \in victims[r] : backup[t] # "none"
    /\ \A t \in touched : backup[t] # "none"

\* The row of an untouched backup was made by a message that has left the queue.
BegunIsTaken ==
    \A t \in Untouched : backup[t] # "none" => \E r \in RunsOf(t) : run[r].pc \notin {"unsent", "queued"}

RowInv == RowExists /\ BegunIsTaken

Only(t) == \A u \in Task \ {t} : backup'[u] = backup[u]

\* The kinds of step.
Idle == UNCHANGED <<backup, born, victims, touched>>

Begins(t) ==
    /\ backup[t] = "none"
    /\ ~ OtherActive(t)
    /\ backup' = [backup EXCEPT ![t] = "IN_PROGRESS"]
    /\ born' = [born EXCEPT ![t] = NextBorn]
    /\ UNCHANGED <<victims, touched>>

Works(t) ==
    /\ backup[t] # "none"
    /\ backup'[t] \in ActiveStatus \cup {"TIMEOUT", "MAX_RETRY_FAILED"} /\ Only(t)
    /\ t \in touched \/ Active(t) \/ "latelimit" \in Env
    /\ UNCHANGED <<born, victims, touched>>

Voids(t) ==
    /\ backup[t] # "none"
    /\ backup'[t] \in {backup[t], "CANCELLED", "DELETE_COMPLETED"} /\ Only(t)
    /\ touched' = touched \cup {t}
    /\ UNCHANGED <<born, victims>>

Drops(r) == FinishFinalize(r) \/ CrashFinalize(r)

RowStep ==
    \/ Idle
    \/ \E t \in Task : Begins(t) \/ Works(t) \/ Voids(t)
    \/ \E r \in Run : Finalize(r) \/ PruneOne(r) \/ Drops(r)

StartedPc == Working \cup {"waiting", "dispatched"}

\* Rows are never removed, so it is enough to look at what a step adds.
LEMMA RowsStay ==
    ASSUME TypeOK, RowExists, NEW r \in Run, backup'[TaskOf[r]] # "none",
           \A t \in Task : backup[t] # "none" => backup'[t] # "none",
           \A q \in Run : run'[q].pc \in StartedPc => run[q].pc \in StartedPc \/ q = r,
           \A q \in Run : chord'[q] # "none" => chord[q] # "none" \/ q = r,
           \A q \in Run : \A t \in victims'[q] : t \in victims[q] \/ backup'[t] # "none",
           touched' = touched
    PROVE  RowExists'
  <1> USE OutcomeDomains, TaskOfRun
  <1>1. ASSUME NEW q \in Run, run'[q].pc \in StartedPc PROVE backup'[TaskOf[q]] # "none"
    BY <1>1 DEF RowExists, StartedPc
  <1>2. ASSUME NEW q \in Run, chord'[q] # "none" PROVE backup'[TaskOf[q]] # "none"
    BY <1>2 DEF RowExists
  <1>3. ASSUME NEW q \in Run, NEW t \in victims'[q] PROVE backup'[t] # "none"
    <2>1. victims[q] \subseteq Task
      OBVIOUS
    <2> QED BY <2>1 DEF RowExists
  <1>4. ASSUME NEW t \in touched' PROVE backup'[t] # "none"
    BY DEF RowExists
  <1> QED BY <1>1, <1>2, <1>3, <1>4 DEF RowExists, StartedPc

LEMMA BegunStays ==
    ASSUME BegunIsTaken, touched \subseteq touched', UNCHANGED backup,
           \A r \in Run :
              run[r].pc \notin {"unsent", "queued"} => run'[r].pc \notin {"unsent", "queued"}
    PROVE  BegunIsTaken'
  <1> SUFFICES ASSUME NEW t \in Untouched', backup'[t] # "none"
               PROVE  \E r \in RunsOf(t) : run'[r].pc \notin {"unsent", "queued"}
    BY DEF BegunIsTaken, RunsOf
  <1>1. t \in Untouched
    BY DEF Untouched
  <1>2. PICK r \in RunsOf(t) : run[r].pc \notin {"unsent", "queued"}
    BY <1>1 DEF BegunIsTaken
  <1> QED BY <1>2 DEF RunsOf

LEMMA RowsOfSteps ==
    ASSUME TypeOK, GuardInv, OutcomeInv, RowInv, [Next]_vars
    PROVE  RowInv' /\ RowStep
  <1> USE OutcomeDomains, TaskOfRun DEF RowStep
  <1> DEFINE Goal == RowInv' /\ RowStep
  <1>1. ASSUME NEW r \in Run, Send(r) PROVE Goal
    <2>1. run[r].pc = "unsent" /\ \A q \in Run : q = r \/ run'[q] = run[q]
      BY <1>1, PcMoved DEF Send, Sent, RunsOf
    <2>2. UNCHANGED <<backup, born, victims, touched, chord>> /\ run'[r].pc = "queued"
      BY <1>1, PcMoved DEF Send
    <2>3. RowInv'
      <3>1. RowExists'
        BY <2>1, <2>2 DEF Working, RowInv, RowExists
      <3>2. BegunIsTaken'
        BY <2>1, <2>2 DEF RowInv, BegunIsTaken, Untouched, RunsOf
      <3> QED BY <3>1, <3>2 DEF RowInv
    <2> QED BY <2>2, <2>3 DEF Idle
  <1>2. ASSUME NEW r \in Run, TurnAway(r) \/ SkipDuplicate(r) \/ SaveNode(r) \/ CrashRun(r) PROVE Goal
    <2>1. run'[r].pc \in {"done", "skipped"} /\ \A q \in Run : q = r \/ run'[q] = run[q]
      BY <1>2, PcMoved DEF TurnAway, SkipDuplicate, SaveNode, CrashRun
    <2>2. UNCHANGED <<backup, born, victims, touched, chord>>
      BY <1>2 DEF TurnAway, SkipDuplicate, SaveNode, CrashRun
    <2>3. RowInv'
      <3>1. RowExists'
        BY <2>1, <2>2 DEF RowInv, Working, RowExists
      <3>2. BegunIsTaken'
        <4>1. \A q \in Run : run[q].pc \notin {"unsent", "queued"} => run'[q].pc \notin {"unsent", "queued"}
          BY <2>1
        <4> QED BY <2>2, <4>1, BegunStays DEF RowInv
      <3> QED BY <3>1, <3>2 DEF RowInv
    <2> QED BY <2>2, <2>3 DEF Idle
  <1>3. ASSUME NEW r \in Run, Initiate(r) PROVE Goal
    <2> DEFINE t == TaskOf[r]
    <2>1. /\ run[r].pc \in {"queued", "waiting"}
          /\ run'[r].pc = "validating" /\ \A q \in Run : q = r \/ run'[q] = run[q]
      BY <1>3, PcMoved DEF Initiate
    <2>2. backup'[t] = "IN_PROGRESS" /\ Only(t) /\ UNCHANGED <<victims, touched, chord>>
      BY <1>3 DEF Initiate, Only
    <2>3. r \in RunsOf(t)
      BY DEF RunsOf
    <2>4. RowInv'
      <3>1. RowExists'
        BY <2>1, <2>2, <2>3 DEF Only, RowInv, RowExists
      <3>2. BegunIsTaken'
        <4> SUFFICES ASSUME NEW u \in Untouched', backup'[u] # "none"
                     PROVE  \E q \in RunsOf(u) : run'[q].pc \notin {"unsent", "queued"}
          BY DEF BegunIsTaken, RunsOf
        <4>1. CASE u = t
          BY <2>1, <4>1 DEF RunsOf
        <4>2. CASE u # t
          <5>1. u \in Untouched /\ backup[u] # "none"
            BY <2>1, <2>2, <2>3, <4>2 DEF Only, Untouched
          <5>2. PICK q \in RunsOf(u) : run[q].pc \notin {"unsent", "queued"}
            BY <5>1 DEF RowInv, BegunIsTaken
          <5> QED BY <2>1, <4>2, <5>2 DEF RunsOf
        <4> QED BY <4>1, <4>2
      <3> QED BY <3>1, <3>2 DEF RowInv
    <2>5. CASE backup[t] = "none"
      BY <1>3, <2>4, <2>5 DEF Initiate, Begins
    <2>6. CASE backup[t] # "none"
      <3>1. ASSUME t \in Untouched PROVE Active(t)
        <4>1. run[r].pc # "queued"
          BY <2>6, <3>1 DEF RowInv, BegunIsTaken, GuardInv, OneRun, RunsOf
        <4> QED BY <2>1, <3>1, <4>1 DEF GuardInv, WorkIsActive, AtWork
      <3>2. Works(t)
        BY <1>3, <2>2, <2>6, <3>1 DEF Initiate, Works, Untouched, ActiveStatus
      <3> QED BY <2>4, <3>2
    <2> QED BY <2>5, <2>6
  <1>4. ASSUME NEW r \in Run, AttachStorage(r) PROVE Goal
    <2>1. run[r].pc \in Working /\ run'[r].pc = "connecting" /\ \A q \in Run : q = r \/ run'[q] = run[q]
      BY <1>4, PcMoved DEF AttachStorage, Working
    <2>2. UNCHANGED <<backup, born, victims, touched, chord>>
      BY <1>4 DEF AttachStorage
    <2>3. RowInv'
      <3>1. RowExists'
        BY <2>1, <2>2 DEF RowInv, RowExists
      <3>2. BegunIsTaken'
        <4>1. \A q \in Run : run[q].pc \notin {"unsent", "queued"} => run'[q].pc \notin {"unsent", "queued"}
          BY <2>1
        <4> QED BY <2>2, <4>1, BegunStays DEF RowInv
      <3> QED BY <3>1, <3>2 DEF RowInv
    <2> QED BY <2>2, <2>3 DEF Idle
  <1>5. ASSUME NEW r \in Run,
               BeginDump(r) \/ FailAttempt(r) \/ TimeOut(r) \/ Dispatch(r) \/ DispatchRefused(r)
        PROVE  Goal
    <2> DEFINE t == TaskOf[r]
    <2>1. /\ run[r].pc \in Working \/ (run[r].pc = "dispatched" /\ "latelimit" \in Env)
          /\ run'[r].pc \notin {"unsent", "queued"} /\ \A q \in Run : q = r \/ run'[q] = run[q]
      <3>1. CASE BeginDump(r)
        BY <3>1 DEF BeginDump, Working, RunRecord
      <3>2. CASE FailAttempt(r)
        BY <3>2, RetryMoved DEF FailAttempt
      <3>3. CASE TimeOut(r)
        BY <3>3, PcMoved DEF TimeOut
      <3>4. CASE Dispatch(r)
        BY <3>4, PcMoved DEF Dispatch, Working
      <3>5. CASE DispatchRefused(r)
        <4>1. run[r].pc = "dumping"
          BY <3>5 DEF DispatchRefused
        <4>2. run'[r].pc \notin {"unsent", "queued"} /\ \A q \in Run : q = r \/ run'[q] = run[q]
          <5>1. CASE Swallow
            <6>1. run' = [run EXCEPT ![r].pc = "dispatched"]
              BY <3>5, <5>1 DEF DispatchRefused
            <6> QED BY <6>1, PcMoved
          <5>2. CASE ~ Swallow
            BY <3>5, <5>2, RetryMoved DEF DispatchRefused
          <5> QED BY <5>1, <5>2
        <4> QED BY <4>1, <4>2 DEF Working
      <3> QED BY <1>5, <3>1, <3>2, <3>3, <3>4, <3>5
    <2>2. /\ backup'[t] \in ActiveStatus \cup {"TIMEOUT", "MAX_RETRY_FAILED"} /\ Only(t)
      <3>1. CASE BeginDump(r) \/ TimeOut(r)
        BY <3>1 DEF BeginDump, TimeOut, Only, ActiveStatus
      <3>2. CASE FailAttempt(r)
        BY <3>2, RetryMoved DEF FailAttempt, Only, ActiveStatus
      <3>3. CASE Dispatch(r)
        BY <3>3 DEF Dispatch, Only, ActiveStatus, StatusAfterDump
      <3>4. CASE DispatchRefused(r)
        BY <3>4, RetryMoved DEF DispatchRefused, Only, ActiveStatus, StatusAfterDump
      <3> QED BY <1>5, <3>1, <3>2, <3>3, <3>4
    <2>3. /\ UNCHANGED <<born, victims, touched>>
          /\ \A q \in Run : q = r \/ chord'[q] = chord[q]
      BY <1>5 DEF BeginDump, FailAttempt, TimeOut, Dispatch, DispatchRefused
    <2>4. backup[t] # "none" /\ backup'[t] # "none"
      BY <2>1, <2>2 DEF RowInv, RowExists, ActiveStatus
    <2>5. RowInv'
      <3>1. RowExists'
        <4>1. \A u \in Task : backup[u] # "none" => backup'[u] # "none"
          BY <2>2, <2>4 DEF Only
        <4>2. \A q \in Run : run'[q].pc \in StartedPc => run[q].pc \in StartedPc \/ q = r
          BY <2>1
        <4>3. \A q \in Run : chord'[q] # "none" => chord[q] # "none" \/ q = r
          BY <2>1, <2>3
        <4>4. backup'[t] # "none"
          BY <2>2, <2>4
        <4> QED BY <2>1, <2>3, <4>1, <4>2, <4>3, <4>4, RowsStay DEF RowInv
      <3>2. BegunIsTaken'
        <4> SUFFICES ASSUME NEW u \in Untouched', backup'[u] # "none"
                     PROVE  \E q \in RunsOf(u) : run'[q].pc \notin {"unsent", "queued"}
          BY DEF BegunIsTaken, RunsOf
        <4>1. CASE u = t
          BY <2>1, <4>1 DEF RunsOf
        <4>2. CASE u # t
          <5>1. u \in Untouched /\ backup[u] # "none"
            BY <2>1, <2>2, <2>3, <2>4, <4>2 DEF Only, Untouched
          <5>2. PICK q \in RunsOf(u) : run[q].pc \notin {"unsent", "queued"}
            BY <5>1 DEF RowInv, BegunIsTaken
          <5> QED BY <2>1, <4>2, <5>2 DEF RunsOf
        <4> QED BY <4>1, <4>2
      <3> QED BY <3>1, <3>2 DEF RowInv
    <2>6. t \in touched \/ Active(t) \/ "latelimit" \in Env
      BY <2>1 DEF GuardInv, WorkIsActive, AtWork, Untouched
    <2> QED BY <2>2, <2>3, <2>4, <2>5, <2>6 DEF Works
  <1>6. ASSUME NEW r \in Run, Finalize(r) PROVE Goal
    <2> DEFINE t == TaskOf[r]
    <2>1. /\ chord[r] # "none" /\ \A q \in Run : q = r \/ (chord'[q] = chord[q] /\ victims'[q] = victims[q])
          /\ UNCHANGED <<run, touched>>
      BY <1>6 DEF Finalize
    <2>2. backup'[t] \in {"COMPLETE", "UPLOAD_FAILED"} /\ Only(t)
      BY <1>6 DEF Finalize, Only
    <2>3. \A u \in victims'[r] : u \in Task /\ backup'[u] = "COMPLETE"
      BY <1>6, ConstantsAssumption DEF Finalize, Excess, CompleteScheduled
    <2>4. backup[t] # "none"
      BY <2>1 DEF RowInv, RowExists
    <2>5. RowInv'
      <3>1. RowExists'
        <4>1. \A u \in Task : backup[u] # "none" => backup'[u] # "none"
          BY <2>2, <2>4 DEF Only
        <4>2. \A q \in Run : run'[q].pc \in StartedPc => run[q].pc \in StartedPc \/ q = r
          BY <2>1
        <4>3. \A q \in Run : chord'[q] # "none" => chord[q] # "none" \/ q = r
          BY <2>1
        <4>4. backup'[t] # "none"
          BY <2>2, <2>4
        <4>5. \A q \in Run : \A u \in victims'[q] : u \in victims[q] \/ backup'[u] # "none"
          BY <2>1, <2>3
        <4> QED BY <2>1, <4>1, <4>2, <4>3, <4>4, <4>5, RowsStay DEF RowInv
      <3>2. BegunIsTaken'
        BY <2>1, <2>2, <2>3, <2>4 DEF Only, RowInv, BegunIsTaken, Untouched, RunsOf
      <3> QED BY <3>1, <3>2 DEF RowInv
    <2> QED BY <1>6, <2>5
  <1>7. ASSUME NEW r \in Run, PruneOne(r) PROVE Goal
    <2>1. PICK u \in victims[r] : /\ backup' = [backup EXCEPT ![u] = "DELETE_COMPLETED"]
                                  /\ victims' = [victims EXCEPT ![r] = @ \ {u}]
      BY <1>7 DEF PruneOne, SoftDelete
    <2>2. UNCHANGED <<run, touched, chord>> /\ \A q \in Run : victims'[q] \subseteq victims[q]
      BY <1>7, <2>1 DEF PruneOne
    <2>3. u \in Task /\ backup[u] # "none" /\ backup'[u] = "DELETE_COMPLETED" /\ Only(u)
      BY <2>1 DEF RowInv, RowExists, Only
    <2>4. RowInv'
      <3>1. RowExists'
        BY <2>2, <2>3 DEF Only, RowInv, RowExists
      <3>2. BegunIsTaken'
        BY <2>2, <2>3 DEF Only, RowInv, BegunIsTaken, Untouched, RunsOf
      <3> QED BY <3>1, <3>2 DEF RowInv
    <2> QED BY <1>7, <2>4
  <1>8. ASSUME NEW r \in Run, Drops(r) PROVE Goal
    <2>1. /\ UNCHANGED <<run, touched, backup>> /\ \A q \in Run : victims'[q] \subseteq victims[q]
          /\ chord[r] # "none" /\ \A q \in Run : q = r \/ chord'[q] = chord[q]
      BY <1>8 DEF Drops, FinishFinalize, CrashFinalize
    <2>2. RowInv'
      <3>1. RowExists'
        BY <2>1 DEF RowInv, RowExists
      <3>2. BegunIsTaken'
        BY <2>1 DEF RowInv, BegunIsTaken, Untouched, RunsOf
      <3> QED BY <3>1, <3>2 DEF RowInv
    <2> QED BY <1>8, <2>2
  <1>9. ASSUME NEW r \in Run, NEW s \in Storage, UploadStep(r, s) \/ CrashUpload(r, s) PROVE Goal
    <2>1. UNCHANGED <<run, backup, born, victims, touched>>
      BY <1>9 DEF UploadStep, PickUp, Store, Reject, RetryUpload, BreakUpload, CrashUpload
    <2>2. /\ up[r][s].st \in UploadLive
          /\ \A q \in Run \ {r} : chord'[q] = chord[q]
      <3>1. CASE Turn(r, s)
        BY <3>1 DEF Turn
      <3>2. CASE Store(r, s)
        BY <3>2 DEF Store, SetUpload, UploadLive
      <3> QED BY <1>9, <3>1, <3>2, TurnSteps DEF OutcomeInv
    <2>3. chord[r] # "none"
      BY <2>2 DEF OutcomeInv, LiveIsOpen
    <2>4. RowInv'
      <3>1. RowExists'
        BY <2>1, <2>2, <2>3 DEF RowInv, RowExists
      <3>2. BegunIsTaken'
        BY <2>1, <2>2, <2>3 DEF RowInv, BegunIsTaken, Untouched, RunsOf
      <3> QED BY <3>1, <3>2 DEF RowInv
    <2> QED BY <2>1, <2>4 DEF Idle
  <1>10. ASSUME NEW t \in Task, NEW k \in SweepKind, Sweep(t, k) PROVE Goal
    <2>1. \A q \in Run : run'[q].pc = run[q].pc
      BY <1>10 DEF Sweep, RunRecord
    <2>2. UNCHANGED <<backup, born, victims, touched, chord>>
      BY <1>10 DEF Sweep
    <2>3. RowInv'
      <3>1. RowExists'
        BY <2>1, <2>2 DEF RowInv, RowExists
      <3>2. BegunIsTaken'
        <4>1. \A q \in Run : run[q].pc \notin {"unsent", "queued"} => run'[q].pc \notin {"unsent", "queued"}
          BY <2>1
        <4> QED BY <2>2, <4>1, BegunStays DEF RowInv
      <3> QED BY <3>1, <3>2 DEF RowInv
    <2> QED BY <2>2, <2>3 DEF Idle
  <1>11. ASSUME (\E status \in NodeStatus : SetNode(status)) \/ MoveGate \/ UNCHANGED vars PROVE Goal
    <2>1. UNCHANGED <<run, backup, born, victims, touched, chord>>
      BY <1>11 DEF SetNode, MoveGate, vars
    <2>2. RowInv'
      <3>1. RowExists'
        BY <2>1 DEF RowInv, RowExists
      <3>2. BegunIsTaken'
        BY <2>1 DEF RowInv, BegunIsTaken, Untouched, RunsOf
      <3> QED BY <3>1, <3>2 DEF RowInv
    <2> QED BY <2>1, <2>2 DEF Idle
  <1>12. ASSUME NEW t \in Task, Cancel(t) PROVE Goal
    <2>1. \A q \in Run : run'[q].pc \in {run[q].pc, "done"}
      <3>1. PICK K \in Reached(Revocable(t)) :
              run' = [q \in Run |-> IF q \in K THEN [run[q] EXCEPT !.pc = "done"] ELSE run[q]]
        BY <1>12 DEF Cancel
      <3> QED BY <3>1 DEF RunRecord
    <2>2. /\ backup[t] # "none" /\ backup'[t] = "CANCELLED" /\ Only(t)
          /\ touched' = touched \cup {t} /\ UNCHANGED <<born, victims>>
      BY <1>12 DEF Cancel, Only
    <2>3. \A q \in Run : chord'[q] # "none" => chord[q] # "none"
      BY <1>12 DEF Cancel
    <2>4. RowInv'
      <3>1. RowExists'
        BY <2>1, <2>2, <2>3 DEF Only, RowInv, Working, RowExists
      <3>2. BegunIsTaken'
        BY <2>1, <2>2, <2>3 DEF Only, RowInv, Working, BegunIsTaken, Untouched, RunsOf
      <3> QED BY <3>1, <3>2 DEF RowInv
    <2> QED BY <2>2, <2>4 DEF Voids
  <1>13. ASSUME NEW t \in Task, Destroy(t) PROVE Goal
    <2>1. /\ backup[t] # "none" /\ backup'[t] = "DELETE_COMPLETED" /\ Only(t)
          /\ touched' = touched \cup {t} /\ UNCHANGED <<run, chord, born, victims>>
      BY <1>13 DEF Destroy, SoftDelete, Only
    <2>2. RowInv'
      <3>1. RowExists'
        BY <2>1 DEF Only, RowInv, RowExists
      <3>2. BegunIsTaken'
        BY <2>1 DEF Only, RowInv, BegunIsTaken, Untouched, RunsOf
      <3> QED BY <3>1, <3>2 DEF RowInv
    <2> QED BY <2>1, <2>2 DEF Voids
  <1>14. ASSUME NEW r \in Run, Resend(r) PROVE Goal
    <2> DEFINE t == TaskOf[r]
    <2>1. run[r].pc = "unsent" /\ run'[r].pc = "queued" /\ \A q \in Run : q = r \/ run'[q] = run[q]
      BY <1>14, PcMoved DEF Resend
    <2>2. backup[t] # "none" /\ touched' = touched \cup {t} /\ UNCHANGED <<backup, born, victims, chord>>
      BY <1>14 DEF Resend
    <2>3. RowInv'
      <3>1. RowExists'
        BY <2>1, <2>2 DEF RowInv, Working, RowExists
      <3>2. BegunIsTaken'
        BY <2>1, <2>2 DEF RowInv, Working, BegunIsTaken, Untouched, RunsOf
      <3> QED BY <3>1, <3>2 DEF RowInv
    <2> QED BY <2>2, <2>3 DEF Voids, Only
  <1> QED
    BY <1>1, <1>2, <1>3, <1>4, <1>5, <1>6, <1>7, <1>8, <1>9, <1>10, <1>11, <1>12, <1>13, <1>14
    DEF Next, RunStep, FinalizeStep, OperatorStep, CrashStep, Drops

LEMMA InitRows == Init => RowInv
  <1> SUFFICES ASSUME Init PROVE RowExists /\ BegunIsTaken
    BY DEF RowInv
  <1> USE TaskOfRun DEF Init
  <1>1. RowExists
    BY DEF RowExists, Working
  <1>2. BegunIsTaken
    BY DEF BegunIsTaken, Untouched
  <1> QED BY <1>1, <1>2

LEMMA RowsHold == Spec => []RowInv
  <1>1. TypeOK /\ GuardInv /\ OutcomeInv /\ RowInv /\ [Next]_vars => RowInv'
    BY RowsOfSteps
  <1> QED BY <1>1, InitRows, OutcomeHolds, TypeCorrect, GuardHolds, PTL DEF Spec

-----------------------------------------------------------------------------
(* The order of the rows.                                                  *)

Begun == {t \in Task : backup[t] # "none"}

\* The creation column orders the rows: no two share a place, none is ahead of its time.
BornInOrder ==
    /\ \A t \in Begun : born[t] \in 1..Cardinality(Begun)
    /\ \A t, u \in Begun : born[t] = born[u] => t = u

LEMMA BegunIsFinite == IsFiniteSet(Begun) /\ Cardinality(Begun) \in Nat
  <1>1. IsFiniteSet(Begun)
    BY ConstantsAssumption, FS_Subset, Begun \subseteq Task DEF Begun
  <1> QED BY <1>1, FS_CardinalityType

\* But for the row that begins, the rows stay as they are.
LEMMA SameRows ==
    ASSUME TypeOK, RowInv, RowStep, ~ \E t \in Task : Begins(t)
    PROVE  Begun' = Begun /\ born' = born
  <1> USE OutcomeDomains, TaskOfRun DEF Begun
  <1>1. CASE Idle
    BY <1>1 DEF Idle
  <1>2. ASSUME NEW t \in Task, Works(t) \/ Voids(t) PROVE Begun' = Begun /\ born' = born
    <2>1. backup[t] # "none" /\ backup'[t] # "none" /\ Only(t) /\ born' = born
      BY <1>2 DEF Works, Voids, ActiveStatus
    <2> QED BY <2>1 DEF Only
  <1>3. ASSUME NEW r \in Run, Finalize(r) PROVE Begun' = Begun /\ born' = born
    <2>1. backup[TaskOf[r]] # "none"
      BY <1>3 DEF Finalize, RowInv, RowExists
    <2>2. backup'[TaskOf[r]] # "none" /\ Only(TaskOf[r]) /\ born' = born
      BY <1>3 DEF Finalize, Only
    <2> QED BY <2>1, <2>2 DEF Only
  <1>4. ASSUME NEW r \in Run, PruneOne(r) PROVE Begun' = Begun /\ born' = born
    <2>1. PICK u \in victims[r] : backup' = [backup EXCEPT ![u] = "DELETE_COMPLETED"]
      BY <1>4 DEF PruneOne, SoftDelete
    <2>2. u \in Task /\ backup[u] # "none"
      BY DEF RowInv, RowExists
    <2> QED BY <1>4, <2>1, <2>2 DEF PruneOne
  <1>5. ASSUME NEW r \in Run, Drops(r) PROVE Begun' = Begun /\ born' = born
    BY <1>5 DEF Drops, FinishFinalize, CrashFinalize
  <1> QED BY <1>1, <1>2, <1>3, <1>4, <1>5 DEF RowStep

LEMMA StepBornInOrder ==
    ASSUME TypeOK, RowInv, BornInOrder, RowStep
    PROVE  BornInOrder'
  <1>1. ASSUME NEW t \in Task, Begins(t) PROVE BornInOrder'
    <2> DEFINE n == Cardinality(Begun)
    <2>1. Begun' = Begun \cup {t} /\ t \notin Begun
      BY <1>1, OutcomeDomains DEF Begins, Begun
    <2>2. n \in Nat /\ Cardinality(Begun') = n + 1
      BY <2>1, BegunIsFinite, FS_AddElement
    <2>3. born'[t] = n + 1 /\ \A u \in Begun : born'[u] = born[u]
      <3>1. NextBorn = 1 + n
        BY DEF NextBorn, Begun
      <3>2. born' = [born EXCEPT ![t] = NextBorn] /\ born \in [Task -> Nat] /\ Begun \subseteq Task
        BY <1>1 DEF Begins, TypeOK, Begun
      <3> QED BY <2>1, <2>2, <3>1, <3>2
    <2>4. \A u \in Begun : born[u] \in 1..n
      BY DEF BornInOrder
    <2>5. \A u \in Begun' : born'[u] \in 1..Cardinality(Begun')
      BY <2>1, <2>2, <2>3, <2>4
    <2>6. \A u, w \in Begun' : born'[u] = born'[w] => u = w
      BY <2>1, <2>2, <2>3, <2>4 DEF BornInOrder
    <2> QED BY <2>5, <2>6 DEF BornInOrder
  <1>2. CASE ~ \E t \in Task : Begins(t)
    BY <1>2, SameRows DEF BornInOrder
  <1> QED BY <1>1, <1>2

-----------------------------------------------------------------------------
(* Retention.                                                              *)

\* Of backups created at different times, at most k have fewer than k newer ones.
LEMMA NewestAreFew ==
    ASSUME NEW C \in SUBSET Task, NEW b \in [Task -> Nat],
           \A t, u \in C : b[t] = b[u] => t = u,
           NEW k \in Nat
    PROVE  Cardinality({u \in C : Cardinality({t \in C : b[t] > b[u]}) < k}) <= k
  <1> DEFINE newer(u) == {t \in C : b[t] > b[u]}
             N == {u \in C : Cardinality(newer(u)) < k}
             f == [u \in N |-> Cardinality(newer(u))]
  <1>1. IsFiniteSet(C)
    BY ConstantsAssumption, FS_Subset
  <1>2. \A u \in C : IsFiniteSet(newer(u)) /\ Cardinality(newer(u)) \in Nat
    <2> TAKE u \in C
    <2>1. newer(u) \in SUBSET C
      OBVIOUS
    <2>2. IsFiniteSet(newer(u))
      BY <1>1, <2>1, FS_Subset
    <2> QED BY <2>2, FS_CardinalityType
  <1>3. IsFiniteSet(N) /\ Cardinality(N) \in Nat
    <2>1. N \in SUBSET C
      OBVIOUS
    <2>2. IsFiniteSet(N)
      BY <1>1, <2>1, FS_Subset
    <2> QED BY <2>2, FS_CardinalityType
  <1>4. IsFiniteSet(0..k - 1) /\ Cardinality(0..k - 1) = k
    BY FS_Interval
  <1>5. f \in [N -> 0..k - 1]
    <2> SUFFICES ASSUME NEW u \in N PROVE Cardinality(newer(u)) \in 0..k - 1
      OBVIOUS
    <2>1. Cardinality(newer(u)) \in Nat
      BY <1>2
    <2> QED BY <2>1
  <1>6. ASSUME NEW u \in C, NEW w \in C, b[u] < b[w]
        PROVE  Cardinality(newer(w)) < Cardinality(newer(u))
    <2>1. newer(w) \in SUBSET newer(u) /\ w \in newer(u) /\ w \notin newer(w)
      BY <1>6
    <2>2. Cardinality(newer(w)) <= Cardinality(newer(u)) /\ Cardinality(newer(w)) # Cardinality(newer(u))
      BY <1>2, <2>1, FS_Subset
    <2>3. Cardinality(newer(u)) \in Nat /\ Cardinality(newer(w)) \in Nat
      BY <1>2
    <2> HIDE DEF newer
    <2> QED BY <2>2, <2>3
  <1>7. ASSUME NEW u \in N, NEW w \in N, f[u] = f[w] PROVE u = w
    <2>1. ~ (b[u] < b[w]) /\ ~ (b[w] < b[u])
      BY <1>2, <1>6, <1>7
    <2>2. b[u] = b[w]
      BY <2>1
    <2> QED BY <2>2
  <1>8. ~ (Cardinality(0..k - 1) < Cardinality(N))
    <2> SUFFICES ASSUME Cardinality(0..k - 1) < Cardinality(N) PROVE FALSE
      OBVIOUS
    <2> HIDE DEF f, N
    <2>1. \E x, y \in N : x # y /\ f[x] = f[y]
      BY <1>3, <1>4, <1>5, FS_PigeonHole
    <2> QED BY <1>7, <2>1
  <1> QED BY <1>3, <1>4, <1>8

VictimsAreOver == \A r \in Run : victims[r] # {} => Over(r)

\* What is left of the schedule's complete backups once every selected one is pruned.
Kept == CompleteScheduled(backup) \ UNION {victims[r] : r \in Run}
KeptWithin == KeepLast > 0 => Cardinality(Kept) <= KeepLast

RetentionInv == BornInOrder /\ VictimsAreOver /\ KeptWithin

LEMMA FewerKept ==
    ASSUME KeptWithin, Kept' \subseteq Kept
    PROVE  KeptWithin'
  <1>1. Kept \in SUBSET Task /\ Kept' \in SUBSET Task
    BY ConstantsAssumption DEF Kept, CompleteScheduled
  <1>2. IsFiniteSet(Kept)
    BY <1>1, ConstantsAssumption, FS_Subset
  <1>3. Cardinality(Kept') <= Cardinality(Kept)
    BY <1>2, FS_Subset
  <1>4. Cardinality(Kept) \in Nat /\ Cardinality(Kept') \in Nat
    BY <1>1, CountIsNat
  <1> QED BY <1>3, <1>4, ConstantsAssumption DEF KeptWithin

\* Without a worker that dies, and without an exception, finalize_backup prunes all it selected.
LEMMA StepKept ==
    ASSUME "crash" \notin Env, "exception" \notin Env, TypeOK, RowInv, BornInOrder',
           VictimsAreOver, KeptWithin, RowStep
    PROVE  KeptWithin'
  <1> USE OutcomeDomains, TaskOfRun, ConstantsAssumption DEF Kept, CompleteScheduled
  <1>1. CASE Idle
    BY <1>1, FewerKept DEF Idle
  <1>2. ASSUME NEW t \in Task, Begins(t) \/ Works(t) \/ Voids(t) PROVE KeptWithin'
    <2>1. /\ victims' = victims
          /\ backup'[t] = "COMPLETE" => backup[t] = "COMPLETE"
          /\ \A u \in Task \ {t} : backup'[u] = backup[u]
      BY <1>2 DEF Begins, Works, Voids, Only, ActiveStatus
    <2> QED BY <2>1, FewerKept
  <1>3. ASSUME NEW r \in Run, Finalize(r) PROVE KeptWithin'
    <2> DEFINE t == TaskOf[r]
               fresh == Uploaded(t) # {} /\ backup[t] # "COMPLETE"
    <2>1. victims[r] = {}
      BY <1>3 DEF Finalize, VictimsAreOver, Over
    <2>2. \A q \in Run \ {r} : victims'[q] = victims[q]
      BY <1>3 DEF Finalize
    <2>3. CASE fresh /\ t \in Scheduled /\ KeepLast > 0
      <3> DEFINE C == CompleteScheduled(backup')
                 N == {u \in C : Cardinality({w \in C : born[w] > born[u]}) < KeepLast}
      <3>1. victims'[r] = Excess(backup') /\ born' = born
        BY <1>3, <2>3 DEF Finalize
      <3>2. C \in SUBSET Task
        OBVIOUS
      <3>3. \A u, w \in C : born[u] = born[w] => u = w
        BY <3>1 DEF BornInOrder, Begun
      <3>4. born \in [Task -> Nat]
        BY DEF TypeOK
      <3>5. Cardinality(N) <= KeepLast
        BY <3>2, <3>3, <3>4, NewestAreFew
      <3>6. Kept' \subseteq N
        <4> SUFFICES ASSUME NEW u \in C, u \notin Excess(backup') PROVE u \in N
          BY <3>1
        <4>1. {w \in C : born[w] > born[u]} \in SUBSET Task
          OBVIOUS
        <4>2. Cardinality({w \in C : born[w] > born[u]}) \in Nat
          BY <4>1, CountIsNat
        <4> QED BY <4>2 DEF Excess
      <3>7. N \in SUBSET Task /\ IsFiniteSet(N)
        BY <3>2, FS_Subset
      <3>8. Cardinality(Kept') <= Cardinality(N) /\ Cardinality(Kept') \in Nat /\ Cardinality(N) \in Nat
        BY <3>6, <3>7, FS_Subset, CountIsNat
      <3> QED BY <3>5, <3>8 DEF KeptWithin
    <2>4. CASE ~ (fresh /\ t \in Scheduled) /\ KeepLast > 0
      <3>1. victims'[r] = {}
        BY <1>3, <2>4 DEF Finalize
      <3>2. \A u \in Scheduled : backup'[u] = "COMPLETE" => backup[u] = "COMPLETE"
        BY <1>3, <2>4 DEF Finalize
      <3>3. victims' = victims
        BY <1>3, <2>1, <3>1 DEF Finalize
      <3> QED BY <3>2, <3>3, FewerKept
    <2>5. CASE ~ (KeepLast > 0)
      BY <2>5 DEF KeptWithin
    <2> QED BY <2>3, <2>4, <2>5
  <1>4. ASSUME NEW r \in Run, PruneOne(r) PROVE KeptWithin'
    <2>1. PICK u \in victims[r] : /\ backup' = [backup EXCEPT ![u] = "DELETE_COMPLETED"]
                                  /\ victims' = [victims EXCEPT ![r] = @ \ {u}]
      BY <1>4 DEF PruneOne, SoftDelete
    <2>2. \A w \in Task : backup'[w] = "COMPLETE" => w # u /\ backup[w] = "COMPLETE"
      BY <2>1
    <2>3. \A q \in Run : \A w \in victims[q] : w = u \/ w \in victims'[q]
      BY <2>1
    <2> QED BY <2>2, <2>3, FewerKept
  <1>5. ASSUME NEW r \in Run, Drops(r) PROVE KeptWithin'
    <2>1. victims' = [victims EXCEPT ![r] = {}] /\ victims[r] = {} /\ backup' = backup
      BY <1>5 DEF Drops, FinishFinalize, CrashFinalize
    <2>2. victims' = victims
      BY <2>1
    <2> QED BY <2>1, <2>2, FewerKept
  <1> QED BY <1>1, <1>2, <1>3, <1>4, <1>5 DEF RowStep

LEMMA StepRetention ==
    ASSUME "crash" \notin Env, "exception" \notin Env,
           TypeOK, GuardInv, OutcomeInv, RowInv, RetentionInv, [Next]_vars
    PROVE  RetentionInv'
  <1>1. RowInv' /\ RowStep
    BY RowsOfSteps
  <1>2. BornInOrder'
    BY <1>1, StepBornInOrder DEF RetentionInv
  <1>3. VictimsAreOver'
    <2>1. \A r \in Run : Over(r) => Over(r)'
      BY ChordStep DEF OutcomeInv
    <2>2. \A r \in Run : victims'[r] # {} => victims[r] # {} \/ Over(r)'
      <3> USE OutcomeDomains DEF Over
      <3>1. CASE Idle \/ \E t \in Task : Begins(t) \/ Works(t) \/ Voids(t)
        BY <3>1 DEF Idle, Begins, Works, Voids
      <3>2. ASSUME NEW r \in Run, Finalize(r)
            PROVE  \A q \in Run : victims'[q] # {} => victims[q] # {} \/ Over(q)'
        BY <3>2 DEF Finalize
      <3>3. ASSUME NEW r \in Run, PruneOne(r) \/ Drops(r)
            PROVE  \A q \in Run : victims'[q] # {} => victims[q] # {}
        BY <3>3 DEF PruneOne, Drops, FinishFinalize, CrashFinalize
      <3> QED BY <1>1, <3>1, <3>2, <3>3 DEF RowStep
    <2> QED BY <2>1, <2>2 DEF VictimsAreOver, RetentionInv
  <1>4. KeptWithin'
    BY <1>1, <1>2, StepKept DEF RetentionInv
  <1> QED BY <1>2, <1>3, <1>4 DEF RetentionInv

LEMMA InitRetention == Init => RetentionInv
  <1> SUFFICES ASSUME Init PROVE RetentionInv
    OBVIOUS
  <1>1. Begun = {} /\ CompleteScheduled(backup) = {}
    BY ConstantsAssumption DEF Init, Begun, CompleteScheduled
  <1>2. BornInOrder
    BY <1>1 DEF BornInOrder
  <1>3. VictimsAreOver
    BY DEF Init, VictimsAreOver
  <1>4. KeptWithin
    <2>1. Kept = {}
      BY <1>1 DEF Kept
    <2> QED BY <2>1, FS_EmptySet, ConstantsAssumption DEF KeptWithin
  <1> QED BY <1>2, <1>3, <1>4 DEF RetentionInv

\* Whenever no finalize_backup is pruning, the schedule has at most keep_last complete backups,
\* whatever operators cancel, delete and re-send.  A finalize_backup that dies, or raises,
\* on the way leaves what it did not prune to the next completion.
THEOREM RetentionIsApplied ==
    ASSUME "crash" \notin Env, "exception" \notin Env
    PROVE  Spec => []RetentionApplied
  <1>1. TypeOK /\ GuardInv /\ OutcomeInv /\ RowInv /\ RetentionInv /\ [Next]_vars => RetentionInv'
    BY StepRetention
  <1>2. RetentionInv => RetentionApplied
    <2> SUFFICES ASSUME RetentionInv, KeepLast > 0, \A r \in Run : victims[r] = {}
                 PROVE  Cardinality(CompleteScheduled(backup)) <= KeepLast
      BY DEF RetentionApplied
    <2>1. Kept = CompleteScheduled(backup)
      BY DEF Kept
    <2> QED BY <2>1 DEF RetentionInv, KeptWithin
  <1> QED BY <1>1, <1>2, InitRetention, RowsHold, OutcomeHolds, TypeCorrect, GuardHolds, PTL DEF Spec

-----------------------------------------------------------------------------
(* Whatever retention removes is outnumbered.                              *)

\* Newer backups of the schedule that are complete, or in an operator's hands.
Later(t) == {u \in Scheduled : born[u] > born[t] /\ (u \in touched \/ backup[u] = "COMPLETE")}
Outnumbered(t) == t \in Scheduled /\ KeepLast > 0 /\ Cardinality(Later(t)) >= KeepLast

VictimsAreOutnumbered ==
    \A r \in Run : \A t \in victims[r] \cap Untouched :
        backup[t] \in {"COMPLETE", "DELETE_COMPLETED"} /\ Outnumbered(t)

\* Retention removes a backup only with keep_last newer ones left, and they stay: of those that
\* go later, each has as many that are newer still.
PrunedAreOutnumbered ==
    \A t \in Untouched : backup[t] = "DELETE_COMPLETED" => Outnumbered(t)

PruneInv == VictimsAreOutnumbered /\ PrunedAreOutnumbered

LEMMA LaterIsFinite ==
    ASSUME NEW t
    PROVE  /\ Later(t) \in SUBSET Task /\ Later(t)' \in SUBSET Task
           /\ IsFiniteSet(Later(t)) /\ IsFiniteSet(Later(t)')
           /\ Cardinality(Later(t)) \in Nat /\ Cardinality(Later(t)') \in Nat
  <1>1. Later(t) \in SUBSET Task /\ Later(t)' \in SUBSET Task
    BY ConstantsAssumption DEF Later
  <1> QED BY <1>1, CountIsNat, FS_Subset, ConstantsAssumption

LEMMA StaysOutnumbered ==
    ASSUME NEW t, NEW u, Outnumbered(u), t \in Scheduled, Later(u) \subseteq Later(t)'
    PROVE  Outnumbered(t)'
  <1>1. Cardinality(Later(u)) <= Cardinality(Later(t)')
    BY LaterIsFinite, FS_Subset
  <1> QED BY <1>1, LaterIsFinite, ConstantsAssumption DEF Outnumbered

\* A step that prunes nothing takes nothing out of the count.
LEMMA LaterGrows ==
    ASSUME TypeOK, RowInv, ChordIsActive, "latelimit" \notin Env, RowStep,
           ~ \E r \in Run : PruneOne(r),
           NEW t \in Begun
    PROVE  Later(t) \subseteq Later(t)'
  <1> USE OutcomeDomains, TaskOfRun, ConstantsAssumption DEF Later
  <1>1. \A u \in Begun : born'[u] = born[u]
    BY SameRows DEF Begins, Begun, TypeOK
  <1>2. touched \subseteq touched'
    BY DEF RowStep, Idle, Begins, Works, Voids, Finalize, Drops, FinishFinalize, CrashFinalize
  <1>3. \A u \in Task : backup[u] = "COMPLETE" => backup'[u] = "COMPLETE" \/ u \in touched'
    <2>1. CASE Idle
      BY <2>1 DEF Idle
    <2>2. ASSUME NEW w \in Task, Begins(w) \/ Works(w) \/ Voids(w)
          PROVE  \A u \in Task : backup[u] = "COMPLETE" => backup'[u] = "COMPLETE" \/ u \in touched'
      BY <2>2 DEF Begins, Works, Voids, Only, Active, ActiveStatus
    <2>3. ASSUME NEW r \in Run, Finalize(r)
          PROVE  \A u \in Task : backup[u] = "COMPLETE" => backup'[u] = "COMPLETE" \/ u \in touched'
      BY <2>3 DEF Finalize
    <2>4. ASSUME NEW r \in Run, Drops(r) PROVE backup' = backup
      BY <2>4 DEF Drops, FinishFinalize, CrashFinalize
    <2> QED BY <2>1, <2>2, <2>3, <2>4 DEF RowStep
  <1>4. \A u \in Later(t) : u \in Begun
    BY DEF RowInv, RowExists, Begun
  <1> QED BY <1>1, <1>2, <1>3, <1>4

\* Pruning u takes u out of the count of t, and leaves in it all that u was counted against.
LEMMA PruneKeepsLater ==
    ASSUME TypeOK, PruneInv, NEW r \in Run, NEW u \in victims[r], NEW t \in Scheduled, Outnumbered(t),
           backup' = [backup EXCEPT ![u] = "DELETE_COMPLETED"], UNCHANGED <<born, touched>>
    PROVE  Outnumbered(t)'
  <1> USE OutcomeDomains DEF Later
  <1>1. u \in Task /\ born \in [Task -> Nat] /\ Scheduled \subseteq Task
    BY ConstantsAssumption DEF TypeOK
  <1>2. \A w \in Task \ {u} : backup'[w] = backup[w]
    OBVIOUS
  <1>3. CASE u \notin Later(t) \/ u \in touched
    <2>1. Later(t) \subseteq Later(t)'
      BY <1>1, <1>2, <1>3
    <2> QED BY <2>1, StaysOutnumbered
  <1>4. CASE u \in Later(t) /\ u \notin touched
    <2>1. Outnumbered(u)
      BY <1>1, <1>4 DEF PruneInv, VictimsAreOutnumbered, Untouched
    <2>2. Later(u) \subseteq Later(t)'
      BY <1>1, <1>2, <1>4
    <2> QED BY <2>1, <2>2, StaysOutnumbered
  <1> QED BY <1>3, <1>4

LEMMA StepPrune ==
    ASSUME "latelimit" \notin Env, TypeOK, RowInv, ChordIsActive, PruneInv, RowStep
    PROVE  PruneInv'
  <1> USE OutcomeDomains, TaskOfRun, ConstantsAssumption
  <1>1. CASE \E r \in Run : PruneOne(r)
    <2>1. PICK r \in Run : PruneOne(r)
      BY <1>1
    <2>2. PICK u \in victims[r] : /\ backup' = [backup EXCEPT ![u] = "DELETE_COMPLETED"]
                                  /\ victims' = [victims EXCEPT ![r] = @ \ {u}]
      BY <2>1 DEF PruneOne, SoftDelete
    <2>3. UNCHANGED <<born, touched>> /\ u \in Task
      BY <2>1 DEF PruneOne
    <2>4. \A t \in Scheduled : Outnumbered(t) => Outnumbered(t)'
      BY <2>2, <2>3, PruneKeepsLater
    <2>5. \A t \in Task : Outnumbered(t) => Outnumbered(t)'
      BY <2>4 DEF Outnumbered
    <2>6. u \in Untouched => Outnumbered(u)
      BY DEF PruneInv, VictimsAreOutnumbered
    <2>7. \A q \in Run : victims'[q] \subseteq victims[q]
      BY <2>2
    <2>8. \A w \in Task : backup'[w] = IF w = u THEN "DELETE_COMPLETED" ELSE backup[w]
      BY <2>2
    <2>9. VictimsAreOutnumbered'
      BY <2>3, <2>5, <2>7, <2>8 DEF PruneInv, VictimsAreOutnumbered, Untouched
    <2>10. PrunedAreOutnumbered'
      BY <2>3, <2>5, <2>6, <2>8 DEF PruneInv, PrunedAreOutnumbered, Untouched
    <2> QED BY <2>9, <2>10 DEF PruneInv
  <1>2. CASE ~ \E r \in Run : PruneOne(r)
    <2>1. \A t \in Begun : Outnumbered(t) => Outnumbered(t)'
      BY <1>2, LaterGrows, StaysOutnumbered DEF Outnumbered
    <2> DEFINE Still ==
          /\ Untouched' \subseteq Untouched
          /\ \A t \in Untouched' : backup[t] \in {"COMPLETE", "DELETE_COMPLETED"} => backup'[t] = backup[t]
          /\ \A t \in Untouched' : backup'[t] = "DELETE_COMPLETED" => backup[t] = "DELETE_COMPLETED"
    <2>2. Still
      <3> USE DEF Untouched
      <3>1. CASE Idle
        BY <3>1 DEF Idle
      <3>2. ASSUME NEW w \in Task, Begins(w) \/ Works(w) \/ Voids(w) PROVE Still
        BY <3>2 DEF Begins, Works, Voids, Only, Active, ActiveStatus
      <3>3. ASSUME NEW r \in Run, Finalize(r) PROVE Still
        <4>1. TaskOf[r] \in Untouched => Active(TaskOf[r])
          BY <3>3 DEF Finalize, ChordIsActive
        <4>2. /\ \A u \in Task \ {TaskOf[r]} : backup'[u] = backup[u]
              /\ backup'[TaskOf[r]] # "DELETE_COMPLETED" /\ touched' = touched
          BY <3>3 DEF Finalize
        <4> QED BY <4>1, <4>2 DEF Active, ActiveStatus
      <3>4. ASSUME NEW r \in Run, Drops(r) PROVE Still
        BY <3>4 DEF Drops, FinishFinalize, CrashFinalize
      <3> QED BY <1>2, <3>1, <3>2, <3>3, <3>4 DEF RowStep
    <2>3. PrunedAreOutnumbered'
      BY <2>1, <2>2 DEF PruneInv, PrunedAreOutnumbered, Begun, Untouched
    <2>4. VictimsAreOutnumbered'
      <3>1. CASE \A q \in Run : victims'[q] \subseteq victims[q]
        BY <2>1, <2>2, <3>1 DEF PruneInv, VictimsAreOutnumbered, Begun, Untouched
      <3>2. ASSUME NEW r \in Run, Finalize(r) PROVE VictimsAreOutnumbered'
        <4>1. \A q \in Run \ {r} : victims'[q] = victims[q]
          BY <3>2 DEF Finalize
        <4>2. ASSUME NEW u \in victims'[r] PROVE backup'[u] = "COMPLETE" /\ Outnumbered(u)'
          <5> DEFINE D == {t \in CompleteScheduled(backup') : born[t] > born[u]}
          <5>1. /\ u \in CompleteScheduled(backup') /\ KeepLast > 0
                /\ Cardinality(D) >= KeepLast /\ born' = born
            BY <3>2, <4>2 DEF Finalize, Excess
          <5>2. D \subseteq Later(u)'
            BY <5>1 DEF Later, CompleteScheduled
          <5>3. Cardinality(D) <= Cardinality(Later(u)') /\ Cardinality(D) \in Nat
            <6>1. D \in SUBSET Task
              BY DEF CompleteScheduled
            <6> QED BY <5>2, <6>1, LaterIsFinite, FS_Subset, CountIsNat
          <5> HIDE DEF D
          <5> QED BY <5>1, <5>3, LaterIsFinite DEF Outnumbered, CompleteScheduled
        <4>3. ASSUME NEW q \in Run \ {r}, NEW t \in victims'[q] \cap Untouched'
              PROVE  backup'[t] \in {"COMPLETE", "DELETE_COMPLETED"} /\ Outnumbered(t)'
          BY <2>1, <2>2, <4>1 DEF PruneInv, VictimsAreOutnumbered, Begun, Untouched
        <4> QED BY <4>2, <4>3 DEF VictimsAreOutnumbered
      <3>3. ASSUME ~ \E r \in Run : Finalize(r) PROVE \A q \in Run : victims'[q] \subseteq victims[q]
        BY <1>2, <3>3 DEF RowStep, Idle, Begins, Works, Voids, Drops, FinishFinalize, CrashFinalize
      <3> QED BY <3>1, <3>2, <3>3
    <2> QED BY <2>3, <2>4 DEF PruneInv
  <1> QED BY <1>1, <1>2

LEMMA PrunesHold ==
    ASSUME "latelimit" \notin Env
    PROVE  Spec => []PruneInv
  <1>1. TypeOK /\ GuardInv /\ OutcomeInv /\ RowInv /\ ChordIsActive /\ PruneInv /\ [Next]_vars => PruneInv'
    BY RowsOfSteps, StepPrune
  <1>2. Init => PruneInv
    BY DEF Init, PruneInv, VictimsAreOutnumbered, PrunedAreOutnumbered, Untouched
  <1> QED
    BY <1>1, <1>2, RowsHold, ChordsHold, OutcomeHolds, TypeCorrect, GuardHolds, PTL DEF Spec

\* What retention has deleted is outnumbered for good: of a backup that no operator touched and
\* that is gone, the schedule still has keep_last newer ones, or an operator took them.
THEOREM PrunedStayOutnumbered ==
    ASSUME "latelimit" \notin Env
    PROVE  Spec => []PrunedAreOutnumbered
  <1>1. PruneInv => PrunedAreOutnumbered
    BY DEF PruneInv
  <1> QED BY <1>1, PrunesHold, PTL

-----------------------------------------------------------------------------
(* The promise, step by step.                                              *)

phases == [t \in Task |-> Phase(t)]

LEMMA PhaseFacts ==
    ASSUME NEW t \in Task
    PROVE  /\ t \in touched => Phase(t) = "void"
           /\ t \notin touched =>
                /\ backup[t] = "none" => Phase(t) = "idle"
                /\ Active(t) => Phase(t) = "running"
                /\ backup[t] = "COMPLETE" => Phase(t) = "stored"
                /\ backup[t] = "DELETE_COMPLETED" => Phase(t) = "pruned"
                /\ backup[t] \in {"UPLOAD_FAILED", "TIMEOUT", "MAX_RETRY_FAILED"} => Phase(t) = "failed"
                /\ Phase(t) = "running" => Active(t)
                /\ Phase(t) = "idle" => backup[t] = "none"
  <1>1. CASE t \in touched
    BY <1>1 DEF Phase
  <1>2. CASE t \notin touched
    BY <1>2 DEF Phase, Active, ActiveStatus
  <1> QED BY <1>1, <1>2

LEMMA OnePhase ==
    ASSUME NEW t \in Task, \A u \in Task \ {t} : backup'[u] = backup[u],
           \A u \in Task \ {t} : u \in touched' <=> u \in touched
    PROVE  phases' = [phases EXCEPT ![t] = Phase(t)']
  <1>1. \A u \in Task \ {t} : Phase(u)' = Phase(u)
    BY DEF Phase, Active
  <1> QED BY <1>1 DEF phases

LEMMA PromiseCounts == ASSUME NEW S PROVE Promise!Cardinality(S) = Cardinality(S)
  BY DEF Promise!Cardinality, Cardinality

LEMMA PromiseStep ==
    ASSUME "latelimit" \notin Env, TypeOK, RowInv, ChordIsActive, PruneInv, RowStep
    PROVE  [Promise!Next]_<<phases, born>>
  <1> USE OutcomeDomains, TaskOfRun
  <1> DEFINE Goal == Promise!Next \/ UNCHANGED <<phases, born>>
  <1>1. CASE Idle
    BY <1>1 DEF Idle, phases, Phase, Active
  <1>2. ASSUME NEW t \in Task, Begins(t) PROVE Goal
    <2>1. t \notin touched /\ Phase(t) = "idle"
      BY <1>2, PhaseFacts DEF Begins, RowInv, RowExists
    <2>2. Phase(t)' = "running"
      BY <1>2, <2>1, PhaseFacts DEF Begins, Phase, Active, ActiveStatus
    <2>3. phases' = [phases EXCEPT ![t] = "running"]
      BY <1>2, <2>2, OnePhase DEF Begins
    <2>4. \A u \in Task : phases[u] # "running"
      BY <1>2, <2>1, PhaseFacts DEF phases, Begins, OtherActive
    <2>5. {u \in Task : phases[u] # "idle"} = {u \in Task : backup[u] # "none"}
      BY PhaseFacts DEF phases, RowInv, RowExists
    <2>6. born' = [born EXCEPT ![t] = 1 + Cardinality({u \in Task : phases[u] # "idle"})]
      BY <1>2, <2>5 DEF Begins, NextBorn
    <2>7. Promise!Begin(t)
      <3>1. phases[t] = "idle" /\ born' = [born EXCEPT ![t] = 1 + Promise!Cardinality({u \in Task : phases[u] # "idle"})]
        BY <2>1, <2>6, PromiseCounts DEF phases
      <3> QED BY <2>3, <2>4, <3>1 DEF Promise!Begin, phases
    <2> QED BY <2>7 DEF Promise!Next
  <1>3. ASSUME NEW t \in Task, t \notin touched, Active(t), touched' = touched, born' = born,
               \A u \in Task \ {t} : backup'[u] = backup[u],
               Active(t)' \/ backup'[t] \in {"COMPLETE", "UPLOAD_FAILED", "TIMEOUT", "MAX_RETRY_FAILED"}
        PROVE  Goal
    <2>1. phases' = [phases EXCEPT ![t] = Phase(t)'] /\ phases[t] = "running"
      BY <1>3, OnePhase, PhaseFacts DEF phases
    <2>2. Phase(t)' \in {"running", "stored", "failed"}
      BY <1>3 DEF Phase, Active, ActiveStatus
    <2>3. CASE Phase(t)' = "running"
      <3>1. phases' = [phases EXCEPT ![t] = phases[t]]
        BY <2>1, <2>3
      <3>2. phases' = phases
        BY <3>1 DEF phases
      <3> QED BY <1>3, <3>2
    <2>4. CASE Phase(t)' \in {"stored", "failed"}
      BY <1>3, <2>1, <2>4 DEF Promise!Next, Promise!Settle, phases
    <2> QED BY <2>2, <2>3, <2>4
  <1>4. ASSUME NEW t \in Task, t \in touched, touched' = touched, born' = born,
               \A u \in Task \ {t} : backup'[u] = backup[u]
        PROVE  Goal
    <2>1. phases' = [phases EXCEPT ![t] = "void"] /\ phases[t] = "void"
      BY <1>4, OnePhase DEF phases, Phase
    <2> QED BY <1>4, <2>1 DEF phases
  <1>5. ASSUME NEW t \in Task, Works(t) PROVE Goal
    BY <1>3, <1>4, <1>5 DEF Works, Only, Active
  <1>6. ASSUME NEW t \in Task, Voids(t) PROVE Goal
    <2>1. phases' = [phases EXCEPT ![t] = "void"]
      BY <1>6, OnePhase DEF Voids, Only, Phase
    <2>2. phases[t] # "idle"
      BY <1>6, PhaseFacts DEF Voids, phases
    <2> QED BY <1>6, <2>1, <2>2 DEF Voids, Promise!Next, Promise!Void, phases
  <1>7. ASSUME NEW r \in Run, Finalize(r) PROVE Goal
    <2>1. /\ \A u \in Task \ {TaskOf[r]} : backup'[u] = backup[u]
          /\ backup'[TaskOf[r]] \in {"COMPLETE", "UPLOAD_FAILED"}
          /\ UNCHANGED <<touched, born>>
      BY <1>7 DEF Finalize
    <2>2. TaskOf[r] \in touched \/ Active(TaskOf[r])
      BY <1>7 DEF Finalize, ChordIsActive, Untouched
    <2> QED BY <1>3, <1>4, <2>1, <2>2
  <1>8. ASSUME NEW r \in Run, PruneOne(r) PROVE Goal
    <2>1. PICK u \in victims[r] : backup' = [backup EXCEPT ![u] = "DELETE_COMPLETED"]
      BY <1>8 DEF PruneOne, SoftDelete
    <2>2. UNCHANGED <<born, touched>> /\ u \in Task
      BY <1>8 DEF PruneOne
    <2>3. CASE u \in touched
      BY <1>4, <2>1, <2>2, <2>3
    <2>4. CASE u \notin touched /\ backup[u] = "DELETE_COMPLETED"
      <3>1. backup' = backup
        BY <2>1, <2>4
      <3> QED BY <2>2, <3>1 DEF phases, Phase, Active
    <2>5. CASE u \notin touched /\ backup[u] = "COMPLETE"
      <3>1. Outnumbered(u)
        BY <2>2, <2>5 DEF PruneInv, VictimsAreOutnumbered, Untouched
      <3>2. phases[u] = "stored" /\ phases' = [phases EXCEPT ![u] = "pruned"]
        BY <2>1, <2>2, <2>5, OnePhase DEF phases, Phase, Active, ActiveStatus
      <3>3. \A w \in Scheduled : phases[w] \in {"stored", "void"} <=> w \in touched \/ backup[w] = "COMPLETE"
        BY ConstantsAssumption DEF phases, Phase, Active, ActiveStatus
      <3>4. {w \in Scheduled : born[w] > born[u] /\ phases[w] \in {"stored", "void"}} = Later(u)
        BY <3>3 DEF Later
      <3>5. Promise!Prune(u)
        <4>1. /\ phases[u] = "stored" /\ u \in Scheduled /\ KeepLast > 0
              /\ Promise!Cardinality({w \in Scheduled : born[w] > born[u] /\ phases[w] \in {"stored", "void"}})
                    >= KeepLast
          BY <3>1, <3>2, <3>4, PromiseCounts DEF Outnumbered
        <4> QED BY <2>2, <3>2, <4>1 DEF Promise!Prune, phases
      <3> QED BY <2>2, <3>5 DEF Promise!Next
    <2> QED BY <2>2, <2>3, <2>4, <2>5 DEF PruneInv, VictimsAreOutnumbered, Untouched
  <1>9. ASSUME NEW r \in Run, Drops(r) PROVE Goal
    BY <1>9 DEF Drops, FinishFinalize, CrashFinalize, phases, Phase, Active
  <1> QED BY <1>1, <1>2, <1>5, <1>6, <1>7, <1>8, <1>9 DEF RowStep

LEMMA PromiseInit == Init => Promise!Init
  <1> SUFFICES ASSUME Init PROVE Promise!Init
    OBVIOUS
  <1>1. \A t \in Task : Phase(t) = "idle"
    BY PhaseFacts DEF Init
  <1> QED BY <1>1 DEF Promise!Init, Init

\* The pipeline implements the promise: backups run one at a time, settle once, and only
\* retention, with enough newer backups, removes a stored one.  The soft time limit of a task
\* that has sent its chord already is excluded: it settles a backup that then settles again.
THEOREM PipelineKeepsPromise ==
    ASSUME "latelimit" \notin Env
    PROVE  Spec => ImplementsPromise
  <1>1. TypeOK /\ GuardInv /\ OutcomeInv /\ RowInv /\ ChordIsActive /\ PruneInv /\ [Next]_vars
           => [Promise!Next]_<<[t \in Task |-> Phase(t)], born>>
    BY RowsOfSteps, PromiseStep DEF phases
  <1> QED
    BY <1>1, PromiseInit, PrunesHold, RowsHold, ChordsHold, OutcomeHolds, TypeCorrect, GuardHolds, PTL
    DEF Spec, ImplementsPromise, Promise!Spec

=============================================================================
