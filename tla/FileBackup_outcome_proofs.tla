----------------------- MODULE FileBackup_outcome_proofs -----------------------
(***************************************************************************)
(* What FileBackup promises of a backup's end: its final status agrees     *)
(* with its stored copies, a settled backup is quiet, an active one has    *)
(* work.  Each theorem names the faults it has to exclude, if any.         *)
(***************************************************************************)
EXTENDS FileBackup_proofs

-----------------------------------------------------------------------------
(* What a step can do to uploads, chords and copies.                       *)

\* finalize_backup has been called for the run, or never will be.
Over(r) == chord[r] \in {"pruning", "done", "lost"}
Past(t) == \E r \in RunsOf(t) : Over(r)

\* The worker of t ends its backup: in the middle of its work, or, with the soft time limit
\* striking late, after the chord was sent.
GivesUp(t) ==
    /\ backup'[t] \in {"TIMEOUT", "MAX_RETRY_FAILED"}
    /\ \E r \in RunsOf(t) :
          run[r].pc \in Working \/ (run[r].pc = "dispatched" /\ "latelimit" \in Env)

\* A step that leaves uploads, chords and copies alone: workers before the chord, sweeps,
\* operators who pause or re-send, workers that die before the chord.
Aside ==
    /\ UNCHANGED <<copy, up, chord, victims>>
    /\ touched \subseteq touched'
    /\ \A t \in Task : zip[t] # "none" => zip'[t] # "none"
    /\ \A t \in Task, s \in Storage :
          point'[t][s] = point[t][s] \/ (point[t][s] = "none" /\ point'[t][s] = "UPLOAD_READY")
    /\ \A t \in Task : \/ backup'[t] = backup[t]
                       \/ backup'[t] \in ActiveStatus
                       \/ GivesUp(t)

\* A step of the upload of run r to s, which stores nothing.
Turn(r, s) ==
    /\ UNCHANGED <<backup, copy, victims, zip, touched>>
    /\ up[r][s].st \in UploadLive
    /\ \A q \in Run, z \in Storage : <<q, z>> # <<r, s>> => up'[q][z] = up[q][z]
    /\ \A q \in Run \ {r} : chord'[q] = chord[q]
    /\ chord'[r] = ChordAfter(up'[r])
    /\ \A t \in Task, z \in Storage : <<t, z>> # <<TaskOf[r], s>> => point'[t][z] = point[t][z]
    /\ point'[TaskOf[r]][s] \in {point[TaskOf[r]][s], "UPLOAD_IN_PROGRESS", "UPLOAD_RETRY", "UPLOAD_FAILED"}

LiveIsOpen ==
    \A r \in Run, s \in Storage : up[r][s].st \in UploadLive \cup {"lost"} => chord[r] = "open"

LEMMA OutcomeDomains ==
    ASSUME TypeOK
    PROVE  /\ run \in [Run -> RunRecord] /\ backup \in [Task -> BackupStatus]
           /\ point \in [Task -> [Storage -> PointStatus]]
           /\ copy \in [Task -> [Storage -> Content]]
           /\ zip \in [Task -> Content]
           /\ chord \in [Run -> ChordState] /\ victims \in [Run -> SUBSET Task]
           /\ up \in [Run -> [Storage -> UploadRecord]] /\ touched \in SUBSET Task
  BY DEF TypeOK

LEMMA AsideSteps ==
    ASSUME TypeOK, [Next]_vars
    PROVE  \/ Aside
           \/ \E r \in Run : \/ Dispatch(r) \/ Finalize(r) \/ PruneOne(r) \/ FinishFinalize(r)
                             \/ CrashFinalize(r)
           \/ \E r \in Run, s \in Storage : UploadStep(r, s) \/ CrashUpload(r, s)
           \/ \E t \in Task : Cancel(t) \/ Destroy(t)
  <1> USE OutcomeDomains, TaskOfRun DEF Aside, ActiveStatus
  <1>1. ASSUME NEW r \in Run, \/ Send(r) \/ TurnAway(r) \/ SkipDuplicate(r) \/ SaveNode(r)
                              \/ Resend(r) \/ CrashRun(r)
        PROVE  Aside
    BY <1>1 DEF Send, TurnAway, SkipDuplicate, SaveNode, Resend, CrashRun
  <1>2. ASSUME NEW r \in Run, Initiate(r) \/ BeginDump(r) PROVE Aside
    BY <1>2 DEF Initiate, BeginDump
  <1>3. ASSUME NEW r \in Run, TimeOut(r) PROVE Aside
    <2>1. GivesUp(TaskOf[r]) /\ \A t \in Task \ {TaskOf[r]} : backup'[t] = backup[t]
      BY <1>3 DEF TimeOut, GivesUp, RunsOf
    <2> QED BY <1>3, <2>1 DEF TimeOut
  <1>4. ASSUME NEW r \in Run, AttachStorage(r) PROVE Aside
    BY <1>4 DEF AttachStorage
  <1>5. ASSUME NEW r \in Run, FailAttempt(r) PROVE Aside
    <2>1. \A t \in Task : backup'[t] = backup[t] \/ backup'[t] \in ActiveStatus \/ GivesUp(t)
      BY <1>5, RetryMoved DEF FailAttempt, GivesUp, RunsOf
    <2> QED BY <1>5, <2>1 DEF FailAttempt
  <1>6. ASSUME NEW r \in Run, DispatchRefused(r) PROVE Aside
    <2>1. \A t \in Task : zip[t] # "none" => zip'[t] # "none"
      BY <1>6 DEF DispatchRefused, BuildArchive
    <2>2. \A t \in Task : backup'[t] = backup[t] \/ backup'[t] \in ActiveStatus \/ GivesUp(t)
      BY <1>6, RetryMoved DEF DispatchRefused, StatusAfterDump, GivesUp, RunsOf, Working
    <2> QED BY <1>6, <2>1, <2>2 DEF DispatchRefused
  <1>7. ASSUME NEW t \in Task, NEW k \in SweepKind, Sweep(t, k) PROVE Aside
    BY <1>7 DEF Sweep
  <1>8. ASSUME NEW status \in NodeStatus, SetNode(status) PROVE Aside
    BY <1>8 DEF SetNode
  <1>9. ASSUME MoveGate PROVE Aside
    BY <1>9 DEF MoveGate
  <1>10. CASE UNCHANGED vars
    BY <1>10 DEF vars
  <1> QED
    BY <1>1, <1>2, <1>3, <1>4, <1>5, <1>6, <1>7, <1>8, <1>9, <1>10
    DEF Next, RunStep, FinalizeStep, OperatorStep, CrashStep

\* An upload that is still to report keeps the chord open.
LEMMA ChordAfterOpen ==
    ASSUME NEW u, NEW s \in Storage, u[s].st \in UploadLive \cup {"lost"}
    PROVE  ChordAfter(u) = "open"
  BY DEF ChordAfter

\* Every step of an upload but the one that stores is a turn.
LEMMA TurnSteps ==
    ASSUME TypeOK, LiveIsOpen, NEW r \in Run, NEW s \in Storage,
           UploadStep(r, s) \/ CrashUpload(r, s)
    PROVE  Turn(r, s) \/ Store(r, s)
  <1> USE OutcomeDomains, TaskOfRun DEF Turn, UploadLive
  <1>1. ASSUME NEW st, SetUpload(r, s, st)
        PROVE  /\ \A q \in Run, z \in Storage : <<q, z>> # <<r, s>> => up'[q][z] = up[q][z]
               /\ \A q \in Run \ {r} : chord'[q] = chord[q]
               /\ chord'[r] = ChordAfter(up'[r])
    BY <1>1 DEF SetUpload
  <1>2. ASSUME NEW p, SetPoint(r, s, p)
        PROVE  /\ point'[TaskOf[r]][s] = p
               /\ \A t \in Task, z \in Storage : <<t, z>> # <<TaskOf[r], s>> => point'[t][z] = point[t][z]
    BY <1>2 DEF SetPoint
  <1>3. CASE PickUp(r, s)
    BY <1>1, <1>2, <1>3 DEF PickUp
  <1>4. CASE Reject(r, s)
    BY <1>1, <1>2, <1>4 DEF Reject
  <1>5. CASE BreakUpload(r, s)
    BY <1>1, <1>5 DEF BreakUpload
  <1>6. CASE RetryUpload(r, s)
    <2>1. CASE up[r][s].tries < MaxUploadRetries
      <3>1. up' = [up EXCEPT ![r][s] = [st |-> "waiting", tries |-> up[r][s].tries + 1]] /\ chord' = chord
        BY <1>6, <2>1 DEF RetryUpload
      <3>2. up'[r][s].st = "waiting"
        BY <3>1
      <3>3. chord'[r] = "open" /\ ChordAfter(up'[r]) = "open"
        <4>1. up[r][s].st = "sending"
          BY <1>6 DEF RetryUpload
        <4> QED BY <3>1, <3>2, <4>1, ChordAfterOpen DEF LiveIsOpen
      <3>4. \A q \in Run, z \in Storage : <<q, z>> # <<r, s>> => up'[q][z] = up[q][z]
        BY <3>1
      <3> QED BY <1>2, <1>6, <2>1, <3>1, <3>3, <3>4 DEF RetryUpload
    <2>2. CASE ~ (up[r][s].tries < MaxUploadRetries)
      BY <1>1, <1>2, <1>6, <2>2 DEF RetryUpload
    <2> QED BY <2>1, <2>2
  <1>7. CASE CrashUpload(r, s)
    <2>1. up' = [up EXCEPT ![r][s].st = "lost"] /\ chord' = chord
      BY <1>7 DEF CrashUpload
    <2>2. up'[r][s].st = "lost"
      BY <2>1 DEF UploadRecord
    <2>3. chord'[r] = "open" /\ ChordAfter(up'[r]) = "open"
      <3>1. up[r][s].st = "sending"
        BY <1>7 DEF CrashUpload
      <3> QED BY <2>1, <2>2, <3>1, ChordAfterOpen DEF LiveIsOpen
    <2>4. \A q \in Run, z \in Storage : <<q, z>> # <<r, s>> => up'[q][z] = up[q][z]
      BY <2>1
    <2> QED BY <1>7, <2>1, <2>3, <2>4 DEF CrashUpload
  <1> QED BY <1>3, <1>4, <1>5, <1>6, <1>7 DEF UploadStep

\* What an operator's cancel leaves of the uploads and chords.
LEMMA CancelMoved ==
    ASSUME TypeOK, NEW t \in Task, Cancel(t)
    PROVE  /\ \A q \in Run, z \in Storage :
                up'[q][z] = up[q][z] \/ (up'[q][z].st = "broken" /\ TaskOf[q] = t)
           /\ \A q \in Run : chord'[q] = IF chord[q] = "open" THEN ChordAfter(up'[q]) ELSE chord[q]
           /\ \A u \in Task \ {t} : backup'[u] = backup[u] /\ point'[u] = point[u]
           /\ \A s \in Storage : point'[t][s] \in {"none", "CANCELLED"}
           /\ backup'[t] = "CANCELLED"
           /\ touched' = touched \cup {t}
           /\ UNCHANGED <<copy, victims, zip>>
  <1> USE OutcomeDomains
  <1>1. PICK U \in Reached(RevocableUploads(t)) :
          up' = [q \in Run |-> [z \in Storage |->
                   IF <<q, z>> \in U THEN [up[q][z] EXCEPT !.st = "broken"] ELSE up[q][z]]]
    BY DEF Cancel
  <1>2. U \subseteq RevocableUploads(t)
    BY DEF Reached
  <1>3. \A q \in Run, z \in Storage : <<q, z>> \in U => TaskOf[q] = t
    BY <1>2 DEF RevocableUploads, RunsOf
  <1>4. \A q \in Run, z \in Storage : [up[q][z] EXCEPT !.st = "broken"].st = "broken"
    BY DEF UploadRecord
  <1>5. \A q \in Run, z \in Storage :
          up'[q][z] = up[q][z] \/ (up'[q][z].st = "broken" /\ TaskOf[q] = t)
    BY <1>1, <1>3, <1>4
  <1>6. \A q \in Run : chord'[q] = IF chord[q] = "open" THEN ChordAfter(up'[q]) ELSE chord[q]
    BY DEF Cancel
  <1> QED BY <1>5, <1>6 DEF Cancel

\* A run whose uploads have reported is never reopened: finalize_backup is called once.
LEMMA ChordStep ==
    ASSUME TypeOK, GuardInv, LiveIsOpen, [Next]_vars
    PROVE  LiveIsOpen' /\ \A r \in Run : Over(r) => Over(r)'
  <1> USE OutcomeDomains, TaskOfRun DEF Over
  <1> DEFINE Goal == LiveIsOpen' /\ \A r \in Run : Over(r) => Over(r)'
  <1>1. CASE Aside
    BY <1>1 DEF Aside, LiveIsOpen
  <1>2. ASSUME NEW r \in Run, Dispatch(r) PROVE Goal
    <2>1. chord[r] = "none" /\ \A s \in Storage : up[r][s].st = "idle"
      BY <1>2 DEF Dispatch, GuardInv, ChordAfterWork, UploadIsChorded
    <2>2. \A q \in Run \ {r} : up'[q] = up[q] /\ chord'[q] = chord[q]
      BY <1>2 DEF Dispatch
    <2>3. CASE Ready(TaskOf[r]) = {}
      <3>1. \A s \in Storage : up'[r][s] = up[r][s]
        BY <1>2, <2>3 DEF Dispatch
      <3> QED BY <2>1, <2>2, <3>1 DEF LiveIsOpen, UploadLive
    <2>4. CASE Ready(TaskOf[r]) # {}
      <3>1. chord'[r] = "open"
        BY <1>2, <2>4 DEF Dispatch
      <3> QED BY <2>1, <2>2, <3>1 DEF LiveIsOpen
    <2> QED BY <2>3, <2>4
  <1>3. ASSUME NEW r \in Run, Finalize(r) \/ FinishFinalize(r) \/ CrashFinalize(r) PROVE Goal
    <2>1. chord[r] \in {"queued", "pruning"} /\ chord'[r] \in {"pruning", "done", "lost"}
      BY <1>3 DEF Finalize, FinishFinalize, CrashFinalize
    <2>2. up' = up /\ \A q \in Run \ {r} : chord'[q] = chord[q]
      BY <1>3 DEF Finalize, FinishFinalize, CrashFinalize
    <2> QED BY <2>1, <2>2 DEF LiveIsOpen
  <1>4. ASSUME NEW r \in Run, PruneOne(r) PROVE Goal
    BY <1>4 DEF PruneOne, LiveIsOpen
  <1>5. ASSUME NEW r \in Run, NEW s \in Storage, UploadStep(r, s) \/ CrashUpload(r, s) PROVE Goal
    <2>1. /\ up[r][s].st \in UploadLive
          /\ \A q \in Run \ {r} : chord'[q] = chord[q] /\ \A z \in Storage : up'[q][z] = up[q][z]
          /\ chord'[r] = ChordAfter(up'[r])
      <3>1. CASE Turn(r, s)
        BY <3>1 DEF Turn
      <3>2. CASE Store(r, s)
        BY <3>2 DEF Store, SetUpload, UploadLive
      <3> QED BY <1>5, <3>1, <3>2, TurnSteps
    <2>2. chord[r] = "open"
      BY <2>1 DEF LiveIsOpen
    <2>3. \A z \in Storage : up'[r][z].st \in UploadLive \cup {"lost"} => chord'[r] = "open"
      BY <2>1, ChordAfterOpen
    <2> QED BY <2>1, <2>2, <2>3 DEF LiveIsOpen
  <1>6. ASSUME NEW t \in Task, Cancel(t) PROVE Goal
    <2>1. \A q \in Run, z \in Storage : up'[q][z].st \in UploadLive \cup {"lost"} =>
             chord[q] = "open" /\ ChordAfter(up'[q]) = "open"
      BY <1>6, CancelMoved, ChordAfterOpen DEF LiveIsOpen, UploadLive
    <2> QED BY <1>6, <2>1, CancelMoved DEF LiveIsOpen
  <1>7. ASSUME NEW t \in Task, Destroy(t) PROVE Goal
    BY <1>7 DEF Destroy, LiveIsOpen
  <1> QED BY <1>1, <1>2, <1>3, <1>4, <1>5, <1>6, <1>7, AsideSteps

-----------------------------------------------------------------------------
(* The final status and the stored copies.                                 *)

ArchiveBuilt == \A r \in Run : chord[r] # "none" => zip[TaskOf[r]] # "none"

SettledIsPast ==
    \A t \in Untouched : backup[t] \in {"COMPLETE", "UPLOAD_FAILED", "DELETE_COMPLETED"} => Past(t)

VictimsArePast == \A r \in Run : \A t \in victims[r] \cap Untouched : Past(t)

\* A storage row that says UPLOAD_COMPLETE has its copy, but at Google Drive, where a deletion
\* leaves the row as it was: then finalize_backup is over, or an operator was at work.
UploadedIsStored ==
    \A t \in Task, s \in Storage : point[t][s] = "UPLOAD_COMPLETE" =>
        copy[t][s] # "none" \/ (s \in Drive /\ (t \in touched \/ Past(t)))

\* The other way round, until finalize_backup has counted the rows.
StoredIsUploaded ==
    \A t \in Untouched, s \in Storage : copy[t][s] # "none" =>
        point[t][s] = "UPLOAD_COMPLETE" \/ Past(t)

StoredHasEnded ==
    \A t \in Untouched, s \in Storage : copy[t][s] # "none" =>
        \E r \in RunsOf(t) : up[r][s].st = "ended"

OutcomeInv ==
    /\ LiveIsOpen
    /\ ArchiveBuilt
    /\ SettledIsPast
    /\ VictimsArePast
    /\ UploadedIsStored
    /\ StoredIsUploaded
    /\ StoredHasEnded
    /\ CompleteHasCopy
    /\ UploadFailedMeansNothingStored

\* Of the messages of an untouched task one at most has a chord, or uploads.
LEMMA OneChord ==
    ASSUME GuardInv, NEW r \in Run, NEW q \in Run, TaskOf[r] = TaskOf[q], TaskOf[r] \in Untouched,
           chord[r] # "none", chord[q] # "none"
    PROVE  r = q
  BY DEF GuardInv, ChordAfterWork, OneRun

\* Until the callback of an untouched task has begun, none has.
LEMMA NotYetPast ==
    ASSUME GuardInv, NEW r \in Run, TaskOf[r] \in Untouched, chord[r] \in {"open", "queued"}
    PROVE  ~ Past(TaskOf[r])
  BY OneChord DEF Past, Over, RunsOf

\* A live upload of an untouched task has stored nothing yet.
LEMMA LiveStoredNothing ==
    ASSUME GuardInv, OutcomeInv, NEW r \in Run, NEW s \in Storage, TaskOf[r] \in Untouched,
           up[r][s].st \in UploadLive
    PROVE  copy[TaskOf[r]][s] = "none"
  BY OneChord DEF GuardInv, OutcomeInv, StoredHasEnded, UploadIsChorded, UploadLive, RunsOf

\* As long as copies are left alone, these facts are about reports and finalize_backup only.
LEMMA CopiesStay ==
    ASSUME UNCHANGED copy, touched \subseteq touched', \A t \in Task : Past(t) => Past(t)'
    PROVE  /\ StoredHasEnded /\ (\A r \in Run, s \in Storage :
                  up[r][s].st = "ended" => up'[r][s].st = "ended") => StoredHasEnded'
           /\ StoredIsUploaded /\ (\A t \in Untouched', s \in Storage :
                  point[t][s] = "UPLOAD_COMPLETE" => point'[t][s] = "UPLOAD_COMPLETE")
              => StoredIsUploaded'
           /\ UploadedIsStored /\ (\A t \in Task, s \in Storage :
                  point'[t][s] = "UPLOAD_COMPLETE" => point[t][s] = "UPLOAD_COMPLETE")
              => UploadedIsStored'
  <1>1. \A t \in Untouched' : t \in Untouched /\ t \in Task
    BY DEF Untouched
  <1>2. ASSUME StoredHasEnded,
               \A r \in Run, s \in Storage : up[r][s].st = "ended" => up'[r][s].st = "ended"
        PROVE  StoredHasEnded'
    <2> SUFFICES ASSUME NEW t \in Untouched', NEW s \in Storage, copy'[t][s] # "none"
                 PROVE  \E r \in RunsOf(t) : up'[r][s].st = "ended"
      BY DEF StoredHasEnded, RunsOf
    <2>1. PICK r \in RunsOf(t) : up[r][s].st = "ended"
      BY <1>1, <1>2 DEF StoredHasEnded
    <2> QED BY <1>2, <2>1 DEF RunsOf
  <1>3. ASSUME StoredIsUploaded,
               \A t \in Untouched', s \in Storage :
                  point[t][s] = "UPLOAD_COMPLETE" => point'[t][s] = "UPLOAD_COMPLETE"
        PROVE  StoredIsUploaded'
    <2> SUFFICES ASSUME NEW t \in Untouched', NEW s \in Storage, copy'[t][s] # "none"
                 PROVE  point'[t][s] = "UPLOAD_COMPLETE" \/ Past(t)'
      BY DEF StoredIsUploaded
    <2> QED BY <1>1, <1>3 DEF StoredIsUploaded
  <1>4. ASSUME UploadedIsStored,
               \A t \in Task, s \in Storage :
                  point'[t][s] = "UPLOAD_COMPLETE" => point[t][s] = "UPLOAD_COMPLETE"
        PROVE  UploadedIsStored'
    <2> SUFFICES ASSUME NEW t \in Task, NEW s \in Storage, point'[t][s] = "UPLOAD_COMPLETE"
                 PROVE  copy'[t][s] # "none" \/ (s \in Drive /\ (t \in touched' \/ Past(t)'))
      BY DEF UploadedIsStored
    <2> QED BY <1>4 DEF UploadedIsStored
  <1> QED BY <1>2, <1>3, <1>4

LEMMA OutcomeAside ==
    ASSUME TypeOK, OutcomeInv, Aside, LiveIsOpen',
           \A r \in Run : Over(r) => Over(r)'
    PROVE  OutcomeInv'
  <1> USE OutcomeDomains, TaskOfRun DEF Aside, OutcomeInv, Untouched
  <1>1. \A t \in Task : Past(t) => Past(t)'
    BY DEF Past, RunsOf
  <1>2. ArchiveBuilt' /\ VictimsArePast'
    BY <1>1 DEF ArchiveBuilt, VictimsArePast
  <1>3. \A t \in Task : backup'[t] \in {"COMPLETE", "UPLOAD_FAILED", "DELETE_COMPLETED"} =>
            backup'[t] = backup[t]
    BY DEF ActiveStatus, GivesUp
  <1>4. SettledIsPast'
    BY <1>1, <1>3 DEF SettledIsPast
  <1>5. CompleteHasCopy'
    BY <1>3 DEF CompleteHasCopy
  <1>6. UploadFailedMeansNothingStored'
    BY <1>3 DEF UploadFailedMeansNothingStored
  <1>7. /\ \A t \in Task, s \in Storage :
              point'[t][s] = "UPLOAD_COMPLETE" <=> point[t][s] = "UPLOAD_COMPLETE"
        /\ \A r \in Run, s \in Storage : up[r][s].st = "ended" => up'[r][s].st = "ended"
    OBVIOUS
  <1>8. UploadedIsStored' /\ StoredIsUploaded' /\ StoredHasEnded'
    BY <1>1, <1>7, CopiesStay
  <1> QED BY <1>2, <1>4, <1>5, <1>6, <1>8

LEMMA OutcomeDispatch ==
    ASSUME TypeOK, GuardInv, OutcomeInv, NEW r \in Run, Dispatch(r), LiveIsOpen',
           \A q \in Run : Over(q) => Over(q)'
    PROVE  OutcomeInv'
  <1> USE OutcomeDomains, TaskOfRun DEF OutcomeInv, Untouched
  <1>1. \A t \in Task : Past(t) => Past(t)'
    BY DEF Past, RunsOf
  <1>2. UNCHANGED <<point, copy, victims, touched>>
    BY DEF Dispatch
  <1>3. \A q \in Run \ {r} : chord'[q] = chord[q] /\ up'[q] = up[q]
    BY DEF Dispatch
  <1>4. \A t \in Task : zip'[t] = zip[t] \/ zip'[t] # "none"
    BY DEF Dispatch, BuildArchive
  <1>5. zip'[TaskOf[r]] # "none"
    BY DEF Dispatch, BuildArchive
  <1>6. \A t \in Task : backup'[t] = backup[t] \/ backup'[t] \in {"DOWNLOAD_COMPLETE", "UPLOAD_IN_PROGRESS"}
    BY DEF Dispatch, StatusAfterDump
  <1>7. \A s \in Storage : up[r][s].st = "idle"
    BY DEF Dispatch, GuardInv, ChordAfterWork, UploadIsChorded
  <1>8. ArchiveBuilt' /\ VictimsArePast'
    BY <1>1, <1>2, <1>3, <1>4, <1>5 DEF ArchiveBuilt, VictimsArePast
  <1>9. SettledIsPast' /\ CompleteHasCopy' /\ UploadFailedMeansNothingStored'
    <2>1. SettledIsPast'
      BY <1>1, <1>2, <1>6 DEF SettledIsPast
    <2>2. CompleteHasCopy'
      BY <1>2, <1>6 DEF CompleteHasCopy
    <2>3. UploadFailedMeansNothingStored'
      BY <1>2, <1>6 DEF UploadFailedMeansNothingStored
    <2> QED BY <2>1, <2>2, <2>3
  <1>10. \A q \in Run, s \in Storage : up[q][s].st = "ended" => up'[q][s].st = "ended"
    <2>1. \A q \in Run, s \in Storage : up[q][s].st = "ended" => q # r
      BY <1>7
    <2> QED BY <1>3, <2>1
  <1>11. UploadedIsStored' /\ StoredIsUploaded' /\ StoredHasEnded'
    BY <1>1, <1>2, <1>10, CopiesStay
  <1> QED BY <1>8, <1>9, <1>11

LEMMA OutcomeTurn ==
    ASSUME TypeOK, GuardInv, OutcomeInv, NEW r \in Run, NEW s \in Storage, Turn(r, s), LiveIsOpen',
           \A q \in Run : Over(q) => Over(q)'
    PROVE  OutcomeInv'
  <1> USE OutcomeDomains, TaskOfRun DEF OutcomeInv, Untouched
  <1>1. \A t \in Task : Past(t) => Past(t)'
    BY DEF Past, RunsOf
  <1>2. UNCHANGED <<backup, copy, victims, zip, touched>>
    BY DEF Turn
  <1>3. chord[r] # "none"
    BY DEF Turn, LiveIsOpen
  <1>4. ArchiveBuilt' /\ VictimsArePast'
    BY <1>1, <1>2, <1>3 DEF ArchiveBuilt, VictimsArePast, Turn
  <1>5. SettledIsPast' /\ CompleteHasCopy' /\ UploadFailedMeansNothingStored'
    BY <1>1, <1>2 DEF SettledIsPast, CompleteHasCopy, UploadFailedMeansNothingStored
  <1>6. TaskOf[r] \in Untouched => copy[TaskOf[r]][s] = "none"
    BY LiveStoredNothing DEF Turn
  <1>7. \A t \in Task, z \in Storage : point'[t][z] = point[t][z] \/ point'[t][z] # "UPLOAD_COMPLETE"
    BY DEF Turn
  <1>8. \A t \in Untouched, z \in Storage : copy[t][z] # "none" => point'[t][z] = point[t][z]
    BY <1>6 DEF Turn
  <1>9. UploadedIsStored' /\ StoredIsUploaded'
    BY <1>1, <1>2, <1>7, <1>8 DEF UploadedIsStored, StoredIsUploaded
  <1>10. StoredHasEnded'
    <2>1. \A q \in Run, z \in Storage : <<q, z>> # <<r, s>> => up'[q][z] = up[q][z]
      BY DEF Turn
    <2>2. ASSUME NEW t \in Untouched', NEW z \in Storage, copy'[t][z] # "none"
          PROVE  \E q \in RunsOf(t) : up'[q][z].st = "ended"
      <3>1. PICK q \in RunsOf(t) : up[q][z].st = "ended"
        BY <1>2, <2>2 DEF StoredHasEnded
      <3>2. <<q, z>> # <<r, s>>
        BY <1>2, <1>6, <2>2 DEF RunsOf
      <3> QED BY <2>1, <3>1, <3>2 DEF RunsOf
    <2> QED BY <2>2 DEF StoredHasEnded, RunsOf
  <1> QED BY <1>4, <1>5, <1>9, <1>10

LEMMA OutcomeStore ==
    ASSUME TypeOK, GuardInv, OutcomeInv, NEW r \in Run, NEW s \in Storage, Store(r, s), LiveIsOpen',
           \A q \in Run : Over(q) => Over(q)'
    PROVE  OutcomeInv'
  <1> DEFINE t == TaskOf[r]
  <1> USE OutcomeDomains, TaskOfRun DEF OutcomeInv, Untouched
  <1>1. \A u \in Task : Past(u) => Past(u)'
    BY DEF Past, RunsOf
  <1>2. UNCHANGED <<backup, victims, zip, touched>>
    BY DEF Store
  <1>3. chord[r] = "open"
    BY DEF Store, LiveIsOpen, UploadLive
  <1>4. zip[t] # "none"
    BY <1>3 DEF ArchiveBuilt
  <1>5. /\ \A u \in Task, z \in Storage : <<u, z>> # <<t, s>> =>
              copy'[u][z] = copy[u][z] /\ point'[u][z] = point[u][z]
        /\ copy'[t][s] # "none" /\ point'[t][s] = "UPLOAD_COMPLETE"
    BY <1>4 DEF Store, SetPoint
  <1>6. /\ \A q \in Run \ {r} : chord'[q] = chord[q] /\ up'[q] = up[q]
        /\ \A z \in Storage \ {s} : up'[r][z] = up[r][z]
        /\ up'[r][s].st = "ended"
    BY DEF Store, SetUpload, UploadRecord
  <1>7. ArchiveBuilt' /\ VictimsArePast' /\ SettledIsPast'
    BY <1>1, <1>2, <1>3, <1>6 DEF ArchiveBuilt, VictimsArePast, SettledIsPast
  <1>8. CompleteHasCopy'
    BY <1>2, <1>5 DEF CompleteHasCopy
  <1>9. t \in Untouched => backup[t] # "UPLOAD_FAILED"
    BY <1>3, NotYetPast DEF SettledIsPast
  <1>10. UploadFailedMeansNothingStored'
    BY <1>2, <1>5, <1>9 DEF UploadFailedMeansNothingStored
  <1>11. UploadedIsStored'
    <2> SUFFICES ASSUME NEW u \in Task, NEW z \in Storage, point'[u][z] = "UPLOAD_COMPLETE"
                 PROVE  copy'[u][z] # "none" \/ (z \in Drive /\ (u \in touched' \/ Past(u)'))
      BY DEF UploadedIsStored
    <2>1. CASE <<u, z>> = <<t, s>>
      BY <1>5, <2>1
    <2>2. CASE <<u, z>> # <<t, s>>
      BY <1>1, <1>2, <1>5, <2>2 DEF UploadedIsStored
    <2> QED BY <2>1, <2>2
  <1>12. StoredIsUploaded'
    BY <1>1, <1>2, <1>5 DEF StoredIsUploaded
  <1>13. StoredHasEnded'
    <2>1. r \in RunsOf(t)
      BY DEF RunsOf
    <2>2. \A q \in Run, z \in Storage : up[q][z].st = "ended" => up'[q][z].st = "ended"
      BY <1>6
    <2>3. ASSUME NEW u \in Untouched', NEW z \in Storage, copy'[u][z] # "none"
          PROVE  \E q \in RunsOf(u) : up'[q][z].st = "ended"
      <3>1. CASE <<u, z>> = <<t, s>>
        BY <1>6, <2>1, <3>1
      <3>2. CASE <<u, z>> # <<t, s>>
        BY <1>2, <1>5, <2>2, <2>3, <3>2 DEF StoredHasEnded, RunsOf
      <3> QED BY <3>1, <3>2
    <2> QED BY <2>3 DEF StoredHasEnded, RunsOf
  <1> QED BY <1>7, <1>8, <1>10, <1>11, <1>12, <1>13

LEMMA OutcomeFinalize ==
    ASSUME TypeOK, GuardInv, OutcomeInv, NEW r \in Run, Finalize(r), LiveIsOpen',
           \A q \in Run : Over(q) => Over(q)'
    PROVE  OutcomeInv'
  <1> DEFINE t == TaskOf[r]
  <1> USE OutcomeDomains, TaskOfRun DEF OutcomeInv, Untouched
  <1>1. \A u \in Task : Past(u) => Past(u)'
    BY DEF Past, RunsOf
  <1>2. UNCHANGED <<point, copy, up, zip, touched>>
    BY DEF Finalize
  <1>3. /\ chord[r] = "queued" /\ chord'[r] = "pruning"
        /\ \A q \in Run \ {r} : chord'[q] = chord[q] /\ victims'[q] = victims[q]
    BY DEF Finalize
  <1>4. Past(t)'
    BY <1>3 DEF Past, RunsOf, Over
  <1>5. /\ \A u \in Task \ {t} : backup'[u] = backup[u]
        /\ backup'[t] = "COMPLETE" => backup[t] = "COMPLETE" \/ Uploaded(t) # {}
        /\ backup'[t] = "UPLOAD_FAILED" => Uploaded(t) = {}
    BY DEF Finalize
  <1>6. \A u \in victims'[r] : u \in Task /\ backup'[u] = "COMPLETE"
    BY ConstantsAssumption DEF Finalize, Excess, CompleteScheduled
  <1>7. ArchiveBuilt'
    BY <1>2, <1>3 DEF ArchiveBuilt
  <1>8. SettledIsPast'
    BY <1>1, <1>2, <1>4, <1>5 DEF SettledIsPast
  <1>9. VictimsArePast'
    BY <1>1, <1>2, <1>3, <1>6, <1>8 DEF VictimsArePast, SettledIsPast
  <1>10. t \in Untouched => ~ Past(t)
    BY <1>3, NotYetPast
  <1>11. CompleteHasCopy'
    BY <1>2, <1>5, <1>10 DEF CompleteHasCopy, Uploaded, UploadedIsStored
  <1>12. UploadFailedMeansNothingStored'
    BY <1>2, <1>5, <1>10 DEF UploadFailedMeansNothingStored, Uploaded, StoredIsUploaded
  <1>13. UploadedIsStored' /\ StoredIsUploaded'
    BY <1>1, <1>2 DEF UploadedIsStored, StoredIsUploaded
  <1>14. StoredHasEnded'
    BY <1>2 DEF StoredHasEnded, RunsOf
  <1> QED BY <1>7, <1>8, <1>9, <1>11, <1>12, <1>13, <1>14

\* soft_delete, whoever calls it: finalize_backup for a backup that is past, or an operator.
LEMMA OutcomeDelete ==
    ASSUME TypeOK, OutcomeInv, NEW u \in Task, NEW F \in SUBSET Storage, SoftDelete(u, F),
           UNCHANGED <<up, chord, zip>>, touched \subseteq touched',
           u \in touched' \/ Past(u),
           \A q \in Run : victims'[q] \subseteq victims[q]
    PROVE  OutcomeInv'
  <1> USE OutcomeDomains, TaskOfRun DEF OutcomeInv, Untouched
  <1>1. \A t \in Task : Past(t) <=> Past(t)'
    BY DEF Past, RunsOf, Over
  <1>2. \A t \in Task \ {u} : backup'[t] = backup[t] /\ point'[t] = point[t] /\ copy'[t] = copy[t]
    BY DEF SoftDelete
  <1>3. /\ backup'[u] = "DELETE_COMPLETED"
        /\ \A s \in Storage : copy'[u][s] = "none" \/ copy'[u][s] = copy[u][s]
    BY DEF SoftDelete
  <1>4. LiveIsOpen' /\ ArchiveBuilt'
    BY DEF LiveIsOpen, ArchiveBuilt
  <1>5. VictimsArePast' /\ SettledIsPast'
    BY <1>1, <1>2, <1>3 DEF VictimsArePast, SettledIsPast
  <1>6. CompleteHasCopy' /\ UploadFailedMeansNothingStored'
    <2>1. CompleteHasCopy'
      BY <1>2, <1>3 DEF CompleteHasCopy
    <2>2. UploadFailedMeansNothingStored'
      BY <1>2, <1>3 DEF UploadFailedMeansNothingStored
    <2> QED BY <2>1, <2>2
  <1>7. \A s \in Storage : point'[u][s] = "UPLOAD_COMPLETE" =>
           /\ point[u][s] = "UPLOAD_COMPLETE"
           /\ copy'[u][s] # "none" \/ s \in Drive
    <2> SUFFICES ASSUME NEW s \in Storage, point'[u][s] = "UPLOAD_COMPLETE"
                 PROVE  /\ point[u][s] = "UPLOAD_COMPLETE"
                        /\ copy'[u][s] # "none" \/ s \in Drive
      OBVIOUS
    <2>1. point'[u][s] = CASE copy[u][s] # "none" /\ s \in F -> "DELETE_FAILED"
                        [] copy[u][s] # "none" /\ s \notin F \cup Drive -> "DELETE_COMPLETED"
                        [] copy[u][s] = "none" /\ s \in Drive /\ point[u][s] = "UPLOAD_COMPLETE"
                              -> "DELETE_COMPLETED"
                        [] OTHER -> point[u][s]
      BY DEF SoftDelete
    <2>2. point[u][s] = "UPLOAD_COMPLETE"
      BY <2>1
    <2>3. copy[u][s] # "none" => s \in Drive
      BY <2>1
    <2> QED BY <2>2, <2>3 DEF UploadedIsStored
  <1>8. UploadedIsStored'
    BY <1>1, <1>2, <1>7 DEF UploadedIsStored
  <1>9. StoredIsUploaded' /\ StoredHasEnded'
    <2>1. StoredIsUploaded'
      BY <1>1, <1>2, <1>3 DEF StoredIsUploaded
    <2>2. \A t \in Task, s \in Storage : copy'[t][s] # "none" => copy[t][s] # "none"
      BY <1>2, <1>3
    <2>3. StoredHasEnded'
      BY <2>2 DEF StoredHasEnded, RunsOf
    <2> QED BY <2>1, <2>3
  <1> QED BY <1>4, <1>5, <1>6, <1>8, <1>9

\* finalize_backup ends, or its worker dies.
LEMMA OutcomeClose ==
    ASSUME TypeOK, OutcomeInv, NEW r \in Run, FinishFinalize(r) \/ CrashFinalize(r), LiveIsOpen',
           \A q \in Run : Over(q) => Over(q)'
    PROVE  OutcomeInv'
  <1> USE OutcomeDomains, TaskOfRun DEF OutcomeInv, Untouched
  <1>1. \A t \in Task : Past(t) => Past(t)'
    BY DEF Past, RunsOf
  <1>2. /\ UNCHANGED <<backup, point, copy, up, zip, touched>>
        /\ \A q \in Run \ {r} : chord'[q] = chord[q]
        /\ chord[r] # "none"
        /\ \A q \in Run : victims'[q] \subseteq victims[q]
    BY DEF FinishFinalize, CrashFinalize
  <1>3. ArchiveBuilt' /\ VictimsArePast' /\ SettledIsPast'
    BY <1>1, <1>2 DEF ArchiveBuilt, VictimsArePast, SettledIsPast
  <1>4. CompleteHasCopy' /\ UploadFailedMeansNothingStored' /\ StoredHasEnded'
    BY <1>2 DEF CompleteHasCopy, UploadFailedMeansNothingStored, StoredHasEnded, RunsOf
  <1>5. UploadedIsStored' /\ StoredIsUploaded'
    BY <1>1, <1>2 DEF UploadedIsStored, StoredIsUploaded
  <1> QED BY <1>3, <1>4, <1>5

LEMMA OutcomeCancel ==
    ASSUME TypeOK, OutcomeInv, NEW t \in Task, Cancel(t), LiveIsOpen',
           \A q \in Run : Over(q) => Over(q)'
    PROVE  OutcomeInv'
  <1> USE OutcomeDomains, TaskOfRun DEF OutcomeInv, Untouched
  <1>1. \A u \in Task : Past(u) => Past(u)'
    BY DEF Past, RunsOf
  <1>2. /\ \A u \in Task \ {t} : backup'[u] = backup[u] /\ point'[u] = point[u]
        /\ \A s \in Storage : point'[t][s] \in {"none", "CANCELLED"}
        /\ backup'[t] = "CANCELLED"
        /\ touched' = touched \cup {t}
        /\ UNCHANGED <<copy, victims, zip>>
    BY CancelMoved
  <1>3. ArchiveBuilt'
    BY CancelMoved DEF ArchiveBuilt
  <1>4. VictimsArePast' /\ SettledIsPast'
    BY <1>1, <1>2 DEF VictimsArePast, SettledIsPast
  <1>5. CompleteHasCopy'
    BY <1>2 DEF CompleteHasCopy
  <1>6. UploadFailedMeansNothingStored'
    BY <1>2 DEF UploadFailedMeansNothingStored
  <1>7. UploadedIsStored'
    BY <1>1, <1>2 DEF UploadedIsStored
  <1>8. StoredIsUploaded'
    BY <1>1, <1>2 DEF StoredIsUploaded
  <1>9. StoredHasEnded'
    <2>1. \A q \in Run, z \in Storage : TaskOf[q] # t => up'[q][z] = up[q][z]
      BY CancelMoved
    <2>2. ASSUME NEW u \in Untouched', NEW z \in Storage, copy'[u][z] # "none"
          PROVE  \E q \in RunsOf(u) : up'[q][z].st = "ended"
      <3>1. PICK q \in RunsOf(u) : up[q][z].st = "ended"
        BY <1>2, <2>2 DEF StoredHasEnded
      <3>2. q \in Run /\ TaskOf[q] # t
        BY <1>2, <2>2 DEF RunsOf
      <3> QED BY <2>1, <3>1, <3>2
    <2> QED BY <2>2 DEF StoredHasEnded, RunsOf
  <1> QED BY <1>3, <1>4, <1>5, <1>6, <1>7, <1>8, <1>9

LEMMA StepOutcome == TypeOK /\ GuardInv /\ OutcomeInv /\ [Next]_vars => OutcomeInv'
  <1> SUFFICES ASSUME TypeOK, GuardInv, OutcomeInv, [Next]_vars PROVE OutcomeInv'
    OBVIOUS
  <1>0. LiveIsOpen' /\ \A q \in Run : Over(q) => Over(q)'
    BY ChordStep DEF OutcomeInv
  <1>1. CASE Aside
    BY <1>0, <1>1, OutcomeAside
  <1>2. ASSUME NEW r \in Run, Dispatch(r) PROVE OutcomeInv'
    BY <1>0, <1>2, OutcomeDispatch
  <1>3. ASSUME NEW r \in Run, Finalize(r) PROVE OutcomeInv'
    BY <1>0, <1>3, OutcomeFinalize
  <1>4. ASSUME NEW r \in Run, PruneOne(r) PROVE OutcomeInv'
    <2>1. PICK u \in victims[r] : /\ \E F \in SUBSET Storage : SoftDelete(u, F)
                                  /\ victims' = [victims EXCEPT ![r] = @ \ {u}]
      BY <1>4 DEF PruneOne
    <2>2. PICK F \in SUBSET Storage : SoftDelete(u, F)
      BY <2>1
    <2>3. u \in Task /\ \A q \in Run : victims'[q] \subseteq victims[q]
      BY <2>1, OutcomeDomains
    <2>4. UNCHANGED <<up, chord, zip, touched>>
      BY <1>4 DEF PruneOne
    <2>5. u \in touched' \/ Past(u)
      BY <2>3, <2>4 DEF OutcomeInv, VictimsArePast, Untouched
    <2> QED BY <2>2, <2>3, <2>4, <2>5, OutcomeDelete
  <1>5. ASSUME NEW r \in Run, FinishFinalize(r) \/ CrashFinalize(r) PROVE OutcomeInv'
    BY <1>0, <1>5, OutcomeClose
  <1>6. ASSUME NEW r \in Run, NEW s \in Storage, UploadStep(r, s) \/ CrashUpload(r, s)
        PROVE  OutcomeInv'
    <2>1. Turn(r, s) \/ Store(r, s)
      BY <1>6, TurnSteps DEF OutcomeInv
    <2> QED BY <1>0, <2>1, OutcomeTurn, OutcomeStore
  <1>7. ASSUME NEW t \in Task, Cancel(t) PROVE OutcomeInv'
    BY <1>0, <1>7, OutcomeCancel
  <1>8. ASSUME NEW t \in Task, Destroy(t) PROVE OutcomeInv'
    <2>1. PICK F \in SUBSET Storage : SoftDelete(t, F)
      BY <1>8 DEF Destroy
    <2> QED BY <1>8, <2>1, OutcomeDelete DEF Destroy
  <1> QED BY <1>1, <1>2, <1>3, <1>4, <1>5, <1>6, <1>7, <1>8, AsideSteps

LEMMA InitOutcome == Init => OutcomeInv
  <1> SUFFICES ASSUME Init PROVE OutcomeInv
    OBVIOUS
  <1>1. /\ \A r \in Run : chord[r] = "none" /\ victims[r] = {}
        /\ \A r \in Run, s \in Storage : up[r][s].st = "idle"
        /\ \A t \in Task : backup[t] = "none"
        /\ \A t \in Task, s \in Storage : copy[t][s] = "none" /\ point[t][s] = "none"
    BY DEF Init
  <1>2. LiveIsOpen /\ ArchiveBuilt /\ VictimsArePast
    BY <1>1 DEF LiveIsOpen, ArchiveBuilt, VictimsArePast, UploadLive
  <1>3. SettledIsPast /\ CompleteHasCopy /\ UploadFailedMeansNothingStored
    BY <1>1 DEF SettledIsPast, CompleteHasCopy, UploadFailedMeansNothingStored, Untouched
  <1>4. UploadedIsStored /\ StoredIsUploaded /\ StoredHasEnded
    BY <1>1 DEF UploadedIsStored, StoredIsUploaded, StoredHasEnded, Untouched
  <1> QED BY <1>2, <1>3, <1>4 DEF OutcomeInv

LEMMA OutcomeHolds == Spec => []OutcomeInv
  <1>1. TypeOK /\ GuardInv /\ OutcomeInv /\ [Next]_vars => OutcomeInv'
    BY StepOutcome
  <1> QED BY <1>1, InitOutcome, TypeCorrect, GuardHolds, PTL DEF Spec

\* finalize_backup: a backup that says COMPLETE has a copy on some destination, whatever
\* operators cancel, delete and re-send and wherever workers die; at Google Drive only
\* while no operator touched it.
THEOREM CompletesHaveCopies == Spec => []CompleteHasCopy
  <1>1. OutcomeInv => CompleteHasCopy
    BY DEF OutcomeInv
  <1> QED BY <1>1, OutcomeHolds, PTL

\* A backup that says UPLOAD_FAILED left no copy behind on any destination.
THEOREM FailedStoreNothing == Spec => []UploadFailedMeansNothingStored
  <1>1. OutcomeInv => UploadFailedMeansNothingStored
    BY DEF OutcomeInv
  <1> QED BY <1>1, OutcomeHolds, PTL

-----------------------------------------------------------------------------
(* A settled backup is quiet.                                              *)

ChordIsActive ==
    \A r \in Run : TaskOf[r] \in Untouched /\ chord[r] \in {"open", "queued"} => Active(TaskOf[r])

LEMMA StepChordIsActive ==
    ASSUME "latelimit" \notin Env, TypeOK, GuardInv, OutcomeInv, ChordIsActive, [Next]_vars
    PROVE  ChordIsActive'
  <1> USE OutcomeDomains, TaskOfRun DEF Untouched
  <1>1. CASE Aside
    <2> SUFFICES ASSUME NEW r \in Run, TaskOf[r] \in Untouched', chord'[r] \in {"open", "queued"}
                 PROVE  Active(TaskOf[r])'
      BY DEF ChordIsActive
    <2>1. TaskOf[r] \in Untouched /\ chord[r] \in {"open", "queued"} /\ Active(TaskOf[r])
      BY <1>1 DEF Aside, ChordIsActive
    <2>2. ~ GivesUp(TaskOf[r])
      BY <2>1 DEF GivesUp, GuardInv, ChordAfterWork, OneRun, Working, RunsOf
    <2> QED BY <1>1, <2>1, <2>2 DEF Aside, Active
  <1>2. ASSUME NEW r \in Run, Dispatch(r) PROVE ChordIsActive'
    <2>1. /\ \A q \in Run \ {r} : chord'[q] = chord[q]
          /\ \A t \in Task \ {TaskOf[r]} : backup'[t] = backup[t]
          /\ touched' = touched
      BY <1>2 DEF Dispatch
    <2>2. Active(TaskOf[r])'
      BY <1>2 DEF Dispatch, StatusAfterDump, Active, ActiveStatus
    <2> QED BY <2>1, <2>2 DEF ChordIsActive, Active
  <1>3. ASSUME NEW r \in Run, Finalize(r) PROVE ChordIsActive'
    <2>1. /\ chord[r] = "queued" /\ chord'[r] = "pruning"
          /\ \A q \in Run \ {r} : chord'[q] = chord[q]
          /\ \A t \in Task \ {TaskOf[r]} : backup'[t] = backup[t]
          /\ touched' = touched
      BY <1>3 DEF Finalize
    <2>2. \A q \in Run \ {r} : TaskOf[q] = TaskOf[r] /\ TaskOf[r] \in Untouched => chord[q] = "none"
      BY <2>1, OneChord
    <2> QED BY <2>1, <2>2 DEF ChordIsActive, Active
  <1>4. ASSUME NEW r \in Run, PruneOne(r) PROVE ChordIsActive'
    <2>1. PICK u \in victims[r] : backup' = [backup EXCEPT ![u] = "DELETE_COMPLETED"]
      BY <1>4 DEF PruneOne, SoftDelete
    <2>2. chord' = chord /\ touched' = touched /\ \A t \in Task \ {u} : backup'[t] = backup[t]
      BY <1>4, <2>1 DEF PruneOne
    <2>3. \A q \in Run : TaskOf[q] = u /\ u \in Untouched => chord[q] \notin {"open", "queued"}
      BY NotYetPast DEF OutcomeInv, VictimsArePast
    <2> QED BY <2>2, <2>3 DEF ChordIsActive, Active
  <1>5. ASSUME NEW r \in Run, FinishFinalize(r) \/ CrashFinalize(r) PROVE ChordIsActive'
    BY <1>5 DEF FinishFinalize, CrashFinalize, ChordIsActive, Active
  <1>6. ASSUME NEW r \in Run, NEW s \in Storage, UploadStep(r, s) \/ CrashUpload(r, s)
        PROVE  ChordIsActive'
    <2>1. /\ up[r][s].st \in UploadLive
          /\ UNCHANGED <<backup, touched>>
          /\ \A q \in Run \ {r} : chord'[q] = chord[q]
      <3>1. CASE Turn(r, s)
        BY <3>1 DEF Turn
      <3>2. CASE Store(r, s)
        BY <3>2 DEF Store, SetUpload, UploadLive
      <3> QED BY <1>6, <3>1, <3>2, TurnSteps DEF OutcomeInv
    <2>2. chord[r] = "open"
      BY <2>1 DEF OutcomeInv, LiveIsOpen
    <2> QED BY <2>1, <2>2 DEF ChordIsActive, Active
  <1>7. ASSUME NEW t \in Task, Cancel(t) PROVE ChordIsActive'
    <2>1. /\ \A u \in Task \ {t} : backup'[u] = backup[u]
          /\ touched' = touched \cup {t}
          /\ \A q \in Run : chord'[q] \in {"open", "queued"} => chord[q] \in {"open", "queued"}
      BY <1>7, CancelMoved
    <2> QED BY <2>1 DEF ChordIsActive, Active
  <1>8. ASSUME NEW t \in Task, Destroy(t) PROVE ChordIsActive'
    BY <1>8 DEF Destroy, SoftDelete, ChordIsActive, Active
  <1> QED BY <1>1, <1>2, <1>3, <1>4, <1>5, <1>6, <1>7, <1>8, AsideSteps

LEMMA ChordsHold ==
    ASSUME "latelimit" \notin Env
    PROVE  Spec => []ChordIsActive
  <1>1. TypeOK /\ GuardInv /\ OutcomeInv /\ ChordIsActive /\ [Next]_vars => ChordIsActive'
    BY StepChordIsActive
  <1>2. Init => ChordIsActive
    BY DEF Init, ChordIsActive
  <1> QED BY <1>1, <1>2, OutcomeHolds, TypeCorrect, GuardHolds, PTL DEF Spec

\* The guard looks at rows only; it may, as a row in a terminal status has nothing dumping,
\* uploading or waiting to be settled behind it.  The soft time limit of a task that has sent
\* its chord already is excluded: it settles the row while the uploads run.
THEOREM SettledsAreQuiet ==
    ASSUME "latelimit" \notin Env
    PROVE  Spec => []SettledIsQuiet
  <1>1. GuardInv /\ OutcomeInv /\ ChordIsActive => SettledIsQuiet
    <2> SUFFICES ASSUME GuardInv, OutcomeInv, ChordIsActive,
                        NEW t \in Untouched, backup[t] \in TerminalStatus
                 PROVE  /\ ~ Dumping(t)
                        /\ \A r \in RunsOf(t), s \in Storage : up[r][s].st \notin UploadLive
                        /\ \A r \in RunsOf(t) : chord[r] \notin {"open", "queued"}
      BY DEF SettledIsQuiet
    <2>1. ~ Active(t)
      BY DEF Active, ActiveStatus, TerminalStatus
    <2>2. ~ Dumping(t)
      BY <2>1 DEF Dumping, RunsOf, GuardInv, WorkIsActive
    <2>3. \A r \in RunsOf(t) : chord[r] \notin {"open", "queued"}
      BY <2>1 DEF RunsOf, ChordIsActive
    <2>4. \A r \in RunsOf(t), s \in Storage : up[r][s].st \notin UploadLive
      BY <2>3 DEF RunsOf, OutcomeInv, LiveIsOpen
    <2> QED BY <2>2, <2>3, <2>4
  <1> QED BY <1>1, ChordsHold, OutcomeHolds, GuardHolds, PTL

-----------------------------------------------------------------------------
(* An active backup has work.                                              *)

\* The faults that leave no active row behind without work: a revocation that comes too late,
\* the soft time limit after the chord was sent, an exception while pruning, and a broker
\* that refuses a chord whose sender notices.
Harmless ==
    /\ Env \subseteq {"late", "latelimit", "exception", "broker"}
    /\ "broker" \in Env => ~ Swallow

NoUploadFails == \A r \in Run, s \in Storage : up[r][s].st \notin {"broken", "lost"}
Calm ==
    /\ touched = {}
    /\ GateOpen
    /\ NoUploadFails

OpenHasLive == \A r \in Run : chord[r] = "open" => \E s \in Storage : up[r][s].st \in UploadLive

HasWork(t) == \E r \in RunsOf(t) : AtWork(r) \/ chord[r] \in {"open", "queued"}
ActiveIsWorked == \A t \in Task : Active(t) => HasWork(t)

WorkInv == Calm /\ OpenHasLive /\ ActiveIsWorked

LEMMA NoFailAfter ==
    ASSUME NEW u, \A s \in Storage : u[s].st \notin {"broken", "lost"}
    PROVE  /\ ChordAfter(u) \in {"open", "queued"}
           /\ ChordAfter(u) = "open" => \E s \in Storage : u[s].st \in UploadLive
  BY DEF ChordAfter

LEMMA UploadKeepsCalm ==
    ASSUME Harmless, TypeOK, OutcomeInv, WorkInv, NEW r \in Run, NEW s \in Storage, UploadStep(r, s)
    PROVE  WorkInv'
  <1> USE OutcomeDomains, TaskOfRun DEF WorkInv, Calm
  <1>1. up'[r][s].st \in {"sending", "waiting", "ended"}
    <2>1. CASE PickUp(r, s)
      BY <2>1 DEF PickUp, SetUpload, UploadRecord
    <2>2. CASE Store(r, s) \/ Reject(r, s)
      BY <2>2 DEF Store, Reject, SetUpload, UploadRecord
    <2>3. CASE RetryUpload(r, s)
      BY <2>3 DEF RetryUpload, SetUpload, UploadRecord
    <2>4. ~ BreakUpload(r, s)
      BY DEF Harmless, BreakUpload
    <2> QED BY <2>1, <2>2, <2>3, <2>4 DEF UploadStep
  <1>2. /\ UNCHANGED <<node, gate, run, backup, touched>>
        /\ \A q \in Run \ {r} : chord'[q] = chord[q]
        /\ \A q \in Run, z \in Storage : <<q, z>> # <<r, s>> => up'[q][z] = up[q][z]
        /\ chord'[r] = ChordAfter(up'[r])
    <2>1. UNCHANGED <<node, gate, run, backup, touched>>
      BY DEF UploadStep, PickUp, Store, Reject, RetryUpload, BreakUpload
    <2>2. CASE Turn(r, s)
      BY <2>1, <2>2 DEF Turn
    <2>3. CASE Store(r, s)
      BY <2>1, <2>3 DEF Store, SetUpload
    <2> QED BY <2>2, <2>3, TurnSteps DEF OutcomeInv
  <1>3. NoUploadFails'
    BY <1>1, <1>2 DEF NoUploadFails
  <1>4. chord'[r] \in {"open", "queued"} /\ (chord'[r] = "open" => \E z \in Storage : up'[r][z].st \in UploadLive)
    BY <1>2, <1>3, NoFailAfter DEF NoUploadFails
  <1>5. OpenHasLive'
    <2> SUFFICES ASSUME NEW q \in Run, chord'[q] = "open"
                 PROVE  \E z \in Storage : up'[q][z].st \in UploadLive
      BY DEF OpenHasLive
    <2>1. CASE q = r
      BY <1>4, <2>1
    <2>2. CASE q # r
      <3>1. PICK z \in Storage : up[q][z].st \in UploadLive
        BY <1>2, <2>2 DEF OpenHasLive
      <3> QED BY <1>2, <2>2, <3>1
    <2> QED BY <2>1, <2>2
  <1>6. ActiveIsWorked'
    BY <1>2, <1>4 DEF ActiveIsWorked, Active, HasWork, AtWork, RunsOf
  <1> QED BY <1>2, <1>3, <1>5, <1>6 DEF GateOpen

\* A step of the task's own code: what else is at work stays.
LEMMA RunKeepsWork ==
    ASSUME TypeOK, WorkInv, NEW r \in Run,
           \A q \in Run \ {r} : run'[q] = run[q],
           \A u \in Task \ {TaskOf[r]} : backup'[u] = backup[u],
           Active(TaskOf[r])' => HasWork(TaskOf[r])',
           chord' = chord, up' = up, touched' = touched, GateOpen'
    PROVE  WorkInv'
  <1> USE OutcomeDomains, TaskOfRun DEF WorkInv
  <1>1. Calm' /\ OpenHasLive'
    BY DEF Calm, NoUploadFails, OpenHasLive
  <1>2. \A t \in Task \ {TaskOf[r]} : HasWork(t) => HasWork(t)'
    BY DEF HasWork, RunsOf, AtWork
  <1>3. ActiveIsWorked'
    BY <1>2 DEF ActiveIsWorked, Active
  <1> QED BY <1>1, <1>3

\* A row that is active keeps the work of its message, unless the message is done with it.
LEMMA SameWork ==
    ASSUME WorkInv, NEW t \in Task, Active(t)' => Active(t), chord' = chord,
           \A q \in RunsOf(t) : AtWork(q) => AtWork(q)'
    PROVE  Active(t)' => HasWork(t)'
  BY DEF WorkInv, ActiveIsWorked, HasWork, RunsOf

LEMMA StepWork ==
    ASSUME Harmless, TypeOK, GuardInv, OutcomeInv, WorkInv, [Next]_vars
    PROVE  WorkInv'
  <1> USE OutcomeDomains, TaskOfRun
  <1>0. GateOpen /\ touched = {} /\ Untouched = Task
    BY DEF WorkInv, Calm, Untouched
  <1>1. ASSUME NEW r \in Run, Send(r) \/ SaveNode(r) PROVE WorkInv'
    <2>1. /\ \A q \in Run \ {r} : run'[q] = run[q]
          /\ ~ AtWork(r)
      BY <1>1, PcMoved DEF Send, SaveNode, Sent, RunsOf, AtWork, Working
    <2>2. UNCHANGED <<gate, backup, chord, up, touched>> /\ node' \in {node, "ACTIVE"}
      BY <1>1 DEF Send, SaveNode
    <2>3. Active(TaskOf[r])' => HasWork(TaskOf[r])'
      BY <2>1, <2>2, SameWork DEF Active, AtWork, RunsOf
    <2> QED BY <1>0, <2>1, <2>2, <2>3, RunKeepsWork DEF GateOpen
  <1>2. ASSUME NEW r \in Run PROVE ~ TurnAway(r)
    BY <1>0 DEF TurnAway
  <1>3. ASSUME NEW r \in Run, SkipDuplicate(r) PROVE WorkInv'
    <2>1. run[r].pc = "queued"
      <3>1. PICK u \in Task \ {TaskOf[r]} : Active(u)
        BY <1>3 DEF SkipDuplicate, OtherActive
      <3>2. ~ Active(TaskOf[r])
        BY <1>0, <3>1 DEF GuardInv, OneActiveBackup
      <3>3. ~ AtWork(r)
        BY <1>0, <3>2 DEF GuardInv, WorkIsActive
      <3> QED BY <1>3, <3>3 DEF SkipDuplicate, AtWork
    <2>2. /\ \A q \in Run \ {r} : run'[q] = run[q]
          /\ ~ AtWork(r)
      BY <1>3, <2>1, PcMoved DEF SkipDuplicate, AtWork, Working
    <2>3. UNCHANGED <<node, gate, backup, chord, up, touched>>
      BY <1>3 DEF SkipDuplicate
    <2>4. Active(TaskOf[r])' => HasWork(TaskOf[r])'
      BY <2>2, <2>3, SameWork DEF Active, AtWork, RunsOf
    <2> QED BY <1>0, <2>2, <2>3, <2>4, RunKeepsWork DEF GateOpen
  <1>4. ASSUME NEW r \in Run, Initiate(r) \/ AttachStorage(r) PROVE WorkInv'
    <2>1. AtWork(r)' /\ \A q \in Run \ {r} : run'[q] = run[q]
      BY <1>4, PcMoved DEF Initiate, AttachStorage, AtWork, Working
    <2>2. /\ UNCHANGED <<gate, chord, up, touched>> /\ node' \in {node, "ACTIVE"}
          /\ \A u \in Task \ {TaskOf[r]} : backup'[u] = backup[u]
      BY <1>4 DEF Initiate, AttachStorage
    <2>3. HasWork(TaskOf[r])'
      BY <2>1 DEF HasWork, RunsOf
    <2> QED BY <1>0, <2>1, <2>2, <2>3, RunKeepsWork DEF GateOpen
  <1>5. ASSUME NEW r \in Run, BeginDump(r) PROVE WorkInv'
    <2>1. AtWork(r)' /\ \A q \in Run \ {r} : run'[q] = run[q]
      BY <1>5 DEF BeginDump, AtWork, Working, RunRecord
    <2>2. /\ UNCHANGED <<gate, node, chord, up, touched>>
          /\ \A u \in Task \ {TaskOf[r]} : backup'[u] = backup[u]
      BY <1>5 DEF BeginDump
    <2>3. HasWork(TaskOf[r])'
      BY <2>1 DEF HasWork, RunsOf
    <2> QED BY <1>0, <2>1, <2>2, <2>3, RunKeepsWork DEF GateOpen
  <1>6. ASSUME NEW r \in Run, FailAttempt(r) \/ DispatchRefused(r) PROVE WorkInv'
    <2>1. RetryOrGiveUp(r) /\ UNCHANGED <<gate, node, chord, up, touched>>
      BY <1>6 DEF FailAttempt, DispatchRefused, Harmless
    <2>2. /\ \A q \in Run \ {r} : run'[q] = run[q]
          /\ \A u \in Task \ {TaskOf[r]} : backup'[u] = backup[u]
          /\ run'[r].pc = "waiting" \/ backup'[TaskOf[r]] = "MAX_RETRY_FAILED"
      BY <2>1, RetryMoved
    <2>3. Active(TaskOf[r])' => HasWork(TaskOf[r])'
      BY <2>2 DEF HasWork, RunsOf, AtWork, Active, ActiveStatus
    <2> QED BY <1>0, <2>1, <2>2, <2>3, RunKeepsWork DEF GateOpen
  <1>7. ASSUME NEW r \in Run, TimeOut(r) PROVE WorkInv'
    <2>1. /\ \A q \in Run \ {r} : run'[q] = run[q]
          /\ \A u \in Task \ {TaskOf[r]} : backup'[u] = backup[u]
          /\ backup'[TaskOf[r]] = "TIMEOUT"
          /\ UNCHANGED <<gate, chord, up, touched>> /\ node' = "ACTIVE"
      BY <1>7 DEF TimeOut
    <2>2. ~ Active(TaskOf[r])'
      BY <2>1 DEF Active, ActiveStatus
    <2> QED BY <1>0, <2>1, <2>2, RunKeepsWork DEF GateOpen
  <1>8. ASSUME NEW r \in Run, Dispatch(r) PROVE WorkInv'
    <2> DEFINE t == TaskOf[r]
    <2>1. /\ \A q \in Run \ {r} : run'[q] = run[q] /\ chord'[q] = chord[q] /\ up'[q] = up[q]
          /\ \A u \in Task \ {t} : backup'[u] = backup[u]
          /\ UNCHANGED <<gate, node, touched>>
          /\ chord'[r] = IF Ready(t) = {} THEN "queued" ELSE "open"
      BY <1>8 DEF Dispatch
    <2>2. \A s \in Storage : up'[r][s].st \in {up[r][s].st, "queued"}
      BY <1>8 DEF Dispatch, UploadRecord
    <2>3. \A s \in Ready(t) : up'[r][s].st = "queued"
      BY <1>8 DEF Dispatch, UploadRecord, Ready
    <2>4. Calm'
      BY <1>0, <2>1, <2>2 DEF WorkInv, Calm, NoUploadFails, GateOpen
    <2>5. OpenHasLive'
      <3>1. ASSUME NEW q \in Run, chord'[q] = "open"
            PROVE  \E s \in Storage : up'[q][s].st \in UploadLive
        <4>1. CASE q = r
          BY <2>1, <2>3, <3>1, <4>1 DEF Ready, UploadLive
        <4>2. CASE q # r
          BY <2>1, <3>1, <4>2 DEF WorkInv, OpenHasLive
        <4> QED BY <4>1, <4>2
      <3> QED BY <3>1 DEF OpenHasLive
    <2>6. HasWork(t)'
      BY <2>1 DEF HasWork, RunsOf
    <2>7. \A u \in Task \ {t} : HasWork(u) => HasWork(u)'
      BY <2>1 DEF HasWork, RunsOf, AtWork
    <2>8. ActiveIsWorked'
      BY <2>1, <2>6, <2>7 DEF WorkInv, ActiveIsWorked, Active
    <2> QED BY <2>4, <2>5, <2>8 DEF WorkInv
  <1>9. ASSUME NEW r \in Run, Finalize(r) \/ FinishFinalize(r) PROVE WorkInv'
    <2>1. /\ chord[r] \in {"queued", "pruning"} /\ chord'[r] \in {"pruning", "done"}
          /\ \A q \in Run \ {r} : chord'[q] = chord[q]
          /\ UNCHANGED <<gate, node, touched, up, run>>
          /\ \A u \in Task \ {TaskOf[r]} : backup'[u] = backup[u]
          /\ chord[r] = "pruning" => backup' = backup
      BY <1>9 DEF Finalize, FinishFinalize
    <2>2. chord[r] = "queued" => ~ Active(TaskOf[r])'
      BY <1>9 DEF Finalize, FinishFinalize, Active, ActiveStatus
    <2>3. \A t \in Task : HasWork(t) => HasWork(t)' \/ (t = TaskOf[r] /\ chord[r] = "queued")
      BY <2>1 DEF HasWork, RunsOf, AtWork
    <2>4. Calm' /\ OpenHasLive'
      BY <2>1 DEF WorkInv, Calm, NoUploadFails, GateOpen, OpenHasLive
    <2>5. ActiveIsWorked'
      BY <2>1, <2>2, <2>3 DEF WorkInv, ActiveIsWorked, Active
    <2> QED BY <2>4, <2>5 DEF WorkInv
  <1>10. ASSUME NEW r \in Run, PruneOne(r) PROVE WorkInv'
    <2>1. PICK u \in victims[r] : backup' = [backup EXCEPT ![u] = "DELETE_COMPLETED"]
      BY <1>10 DEF PruneOne, SoftDelete
    <2>2. UNCHANGED <<gate, node, touched, up, run, chord>>
      BY <1>10 DEF PruneOne
    <2>3. \A t \in Task : Active(t)' => Active(t)
      BY <2>1 DEF Active, ActiveStatus
    <2>4. ActiveIsWorked'
      BY <2>2, <2>3 DEF WorkInv, ActiveIsWorked, HasWork, RunsOf, AtWork
    <2>5. Calm' /\ OpenHasLive'
      BY <2>2 DEF WorkInv, Calm, NoUploadFails, GateOpen, OpenHasLive
    <2> QED BY <2>4, <2>5 DEF WorkInv
  <1>11. ASSUME NEW r \in Run, NEW s \in Storage, UploadStep(r, s) PROVE WorkInv'
    BY <1>11, UploadKeepsCalm
  <1>12. ASSUME NEW t \in Task, NEW k \in SweepKind, Sweep(t, k) PROVE WorkInv'
    <2>1. \A q \in Run : run'[q].pc = run[q].pc
      BY <1>12 DEF Sweep, RunRecord
    <2>2. UNCHANGED <<gate, node, touched, up, chord, backup>>
      BY <1>12 DEF Sweep
    <2>3. ActiveIsWorked'
      BY <2>1, <2>2 DEF WorkInv, ActiveIsWorked, HasWork, RunsOf, AtWork, Active
    <2>4. Calm' /\ OpenHasLive'
      BY <2>2 DEF WorkInv, Calm, NoUploadFails, GateOpen, OpenHasLive
    <2> QED BY <2>3, <2>4 DEF WorkInv
  <1>13. ~ OperatorStep /\ ~ CrashStep
    BY DEF Harmless, OperatorStep, CrashStep, SetNode, MoveGate, Cancel, Destroy, Resend,
           CrashRun, CrashFinalize, CrashUpload
  <1>14. CASE UNCHANGED vars
    BY <1>14 DEF vars, WorkInv, Calm, NoUploadFails, GateOpen, OpenHasLive, ActiveIsWorked, Active,
                 HasWork, RunsOf, AtWork
  <1> QED
    BY <1>1, <1>2, <1>3, <1>4, <1>5, <1>6, <1>7, <1>8, <1>9, <1>10, <1>11, <1>12, <1>13, <1>14
    DEF Next, RunStep, FinalizeStep

\* The node cannot wedge behind its guard: a row in an active status has a message, a worker,
\* an upload or a callback that will move it.  A pause, a cancel, a delete, a re-send, a dead
\* worker, a broken upload, or a chord whose refusal is swallowed can each leave one without.
THEOREM ActivesHaveWork ==
    ASSUME Harmless
    PROVE  Spec => []ActiveHasWork
  <1>1. TypeOK /\ GuardInv /\ OutcomeInv /\ WorkInv /\ [Next]_vars => WorkInv'
    BY StepWork
  <1>2. Init => WorkInv
    BY DEF Init, WorkInv, Calm, GateOpen, NoUploadFails, OpenHasLive, ActiveIsWorked, Active, ActiveStatus
  <1>3. WorkInv => ActiveHasWork
    <2> SUFFICES ASSUME WorkInv, NEW t \in Task, Active(t) PROVE InFlight(t)
      BY DEF ActiveHasWork
    <2>1. PICK r \in RunsOf(t) : AtWork(r) \/ chord[r] \in {"open", "queued"}
      BY DEF WorkInv, ActiveIsWorked, HasWork
    <2>2. chord[r] = "open" => \E s \in Storage : up[r][s].st \in UploadLive
      BY DEF WorkInv, OpenHasLive, RunsOf
    <2> QED BY <2>1, <2>2 DEF InFlight, AtWork
  <1> QED BY <1>1, <1>2, <1>3, OutcomeHolds, TypeCorrect, GuardHolds, PTL DEF Spec

-----------------------------------------------------------------------------
(* What a step can do to the messages.                                     *)

Left == {"dispatched", "done"}

\* Of the messages a step changes r alone, and of r where it stands.
OnlyPc(r) ==
    /\ run'[r].attempt = run[r].attempt /\ run'[r].torn = run[r].torn
    /\ \A q \in Run \ {r} : run'[q] = run[q]

LEMMA PcOnly ==
    ASSUME TypeOK, NEW r \in Run, NEW p, run' = [run EXCEPT ![r].pc = p]
    PROVE  run'[r].pc = p /\ OnlyPc(r)
  BY DEF TypeOK, RunRecord, OnlyPc

LEMMA RetryOnly ==
    ASSUME TypeOK, NEW r \in Run, RetryOrGiveUp(r)
    PROVE  /\ \/ run'[r].pc = "waiting" /\ run'[r].attempt > 0
              \/ run'[r].pc = "done" /\ run'[r].attempt = run[r].attempt
           /\ run'[r].torn = run[r].torn
           /\ \A q \in Run \ {r} : run'[q] = run[q]
  <1> USE DEF RetryOrGiveUp
  <1>1. run \in [Run -> RunRecord] /\ run[r].attempt \in Nat
    BY DEF TypeOK, RunRecord
  <1>2. CASE run[r].attempt < MaxRetries
    <2> DEFINE x == [run[r] EXCEPT !.pc = "waiting", !.attempt = run[r].attempt + 1]
    <2>1. run' = [run EXCEPT ![r] = x]
      BY <1>2
    <2>2. x.pc = "waiting" /\ x.attempt = run[r].attempt + 1 /\ x.torn = run[r].torn
      BY <1>1 DEF RunRecord
    <2>3. run'[r] = x /\ \A q \in Run \ {r} : run'[q] = run[q]
      BY <1>1, <2>1
    <2> HIDE DEF x
    <2> QED BY <1>1, <2>2, <2>3
  <1>3. CASE ~ (run[r].attempt < MaxRetries)
    BY <1>3, PcOnly DEF OnlyPc
  <1> QED BY <1>2, <1>3

\* A message that left its dump behind never goes back to one, attempts are only added, and to a
\* message that was sent, only the guard skips, and only a sweep tears a working directory.
MessageMoves(q) ==
    /\ run[q].attempt > 0 => run'[q].attempt > 0
    /\ run[q].pc \in Left => run'[q].pc \in Left
    /\ run'[q].pc = "skipped" => run[q].pc = "skipped" \/ SkipDuplicate(q)
    /\ run'[q].pc = "unsent" => run[q].pc = "unsent" /\ run'[q].attempt = run[q].attempt
    /\ run'[q].torn =>
          \/ run[q].torn
          \/ run[q].pc = "dumping" /\ sweeps[TaskOf[q]]["dir"] > 0

LEMMA MessageSteps ==
    ASSUME TypeOK, [Next]_vars, NEW q \in Run
    PROVE  MessageMoves(q)
  <1> USE OutcomeDomains, TaskOfRun DEF Left
  <1>0. ASSUME run'[q] = run[q] PROVE MessageMoves(q)
    BY <1>0 DEF MessageMoves
  <1>1. ASSUME NEW r \in Run, OnlyPc(r), run[r].pc \in Left => run'[r].pc \in Left,
               run'[r].pc = "skipped" => SkipDuplicate(r), run'[r].pc # "unsent"
        PROVE  MessageMoves(q)
    BY <1>0, <1>1 DEF MessageMoves, OnlyPc
  <1>2. ASSUME NEW r \in Run, Send(r) \/ TurnAway(r) \/ Resend(r) PROVE MessageMoves(q)
    <2>1. CASE Send(r) \/ Resend(r)
      <3>1. run' = [run EXCEPT ![r].pc = "queued"] /\ run[r].pc \notin Left
        BY <2>1 DEF Send, Sent, RunsOf, Resend
      <3>2. OnlyPc(r) /\ run'[r].pc = "queued"
        BY <3>1, PcOnly DEF OnlyPc
      <3> QED BY <1>1, <3>1, <3>2
    <2>2. CASE TurnAway(r)
      <3>1. run' = [run EXCEPT ![r].pc = "done"]
        BY <2>2 DEF TurnAway
      <3>2. OnlyPc(r) /\ run'[r].pc = "done"
        BY <3>1, PcOnly DEF OnlyPc
      <3> QED BY <1>1, <3>1, <3>2
    <2> QED BY <1>2, <2>1, <2>2
  <1>3. ASSUME NEW r \in Run, SkipDuplicate(r) \/ Initiate(r) \/ AttachStorage(r) PROVE MessageMoves(q)
    <2>1. CASE SkipDuplicate(r)
      <3>1. run' = [run EXCEPT ![r].pc = "skipped"] /\ run[r].pc \notin Left
        BY <2>1 DEF SkipDuplicate
      <3>2. OnlyPc(r) /\ run'[r].pc = "skipped"
        BY <3>1, PcOnly DEF OnlyPc
      <3> QED BY <1>1, <2>1, <3>1, <3>2
    <2>2. CASE Initiate(r)
      <3>1. run' = [run EXCEPT ![r].pc = "validating"] /\ run[r].pc \notin Left
        BY <2>2 DEF Initiate
      <3>2. OnlyPc(r) /\ run'[r].pc = "validating"
        BY <3>1, PcOnly DEF OnlyPc
      <3> QED BY <1>1, <3>1, <3>2
    <2>3. CASE AttachStorage(r)
      <3>1. run' = [run EXCEPT ![r].pc = "connecting"] /\ run[r].pc \notin Left
        BY <2>3 DEF AttachStorage
      <3>2. OnlyPc(r) /\ run'[r].pc = "connecting"
        BY <3>1, PcOnly DEF OnlyPc
      <3> QED BY <1>1, <3>1, <3>2
    <2> QED BY <1>3, <2>1, <2>2, <2>3
  <1>4. ASSUME NEW r \in Run, TimeOut(r) \/ SaveNode(r) \/ CrashRun(r) \/ Dispatch(r) PROVE MessageMoves(q)
    <2>1. CASE TimeOut(r) \/ SaveNode(r) \/ CrashRun(r)
      <3>1. run' = [run EXCEPT ![r].pc = "done"]
        BY <2>1 DEF TimeOut, SaveNode, CrashRun
      <3>2. OnlyPc(r) /\ run'[r].pc = "done"
        BY <3>1, PcOnly DEF OnlyPc
      <3> QED BY <1>1, <3>1, <3>2
    <2>2. CASE Dispatch(r)
      <3>1. run' = [run EXCEPT ![r].pc = "dispatched"]
        BY <2>2 DEF Dispatch
      <3>2. OnlyPc(r) /\ run'[r].pc = "dispatched"
        BY <3>1, PcOnly DEF OnlyPc
      <3> QED BY <1>1, <3>1, <3>2
    <2> QED BY <1>4, <2>1, <2>2
  <1>5. ASSUME NEW r \in Run, BeginDump(r) PROVE MessageMoves(q)
    <2>1. /\ run[r].pc = "connecting" /\ \A z \in Run \ {r} : run'[z] = run[z]
          /\ run'[r].pc = "dumping" /\ run'[r].attempt = run[r].attempt /\ run'[r].torn = FALSE
      BY <1>5 DEF BeginDump, RunRecord
    <2> QED BY <1>0, <2>1 DEF MessageMoves
  <1>6. ASSUME NEW r \in Run, RetryOrGiveUp(r), run[r].pc \in Working PROVE MessageMoves(q)
    BY <1>0, <1>6, RetryOnly DEF MessageMoves, Working
  <1>7. ASSUME NEW r \in Run, FailAttempt(r) PROVE MessageMoves(q)
    BY <1>6, <1>7 DEF FailAttempt
  <1>8. ASSUME NEW r \in Run, DispatchRefused(r) PROVE MessageMoves(q)
    <2>1. run[r].pc = "dumping"
      BY <1>8 DEF DispatchRefused
    <2>2. CASE Swallow
      <3>1. run' = [run EXCEPT ![r].pc = "dispatched"]
        BY <1>8, <2>2 DEF DispatchRefused
      <3>2. OnlyPc(r) /\ run'[r].pc = "dispatched"
        BY <3>1, PcOnly DEF OnlyPc
      <3> QED BY <1>1, <3>1, <3>2
    <2>3. CASE ~ Swallow
      <3>1. RetryOrGiveUp(r)
        BY <1>8, <2>3 DEF DispatchRefused
      <3> QED BY <1>6, <2>1, <3>1 DEF Working
    <2> QED BY <2>2, <2>3
  <1>9. ASSUME NEW t \in Task, NEW k \in SweepKind, Sweep(t, k) PROVE MessageMoves(q)
    <2>1. \/ run'[q] = run[q]
          \/ /\ k = "dir" /\ TaskOf[q] = t /\ run[q].pc = "dumping"
             /\ run'[q] = [run[q] EXCEPT !.torn = TRUE]
      BY <1>9 DEF Sweep
    <2>2. CASE k = "dir" /\ TaskOf[q] = t /\ run[q].pc = "dumping" /\ run'[q] = [run[q] EXCEPT !.torn = TRUE]
      <3>1. run'[q].pc = run[q].pc /\ run'[q].attempt = run[q].attempt
        BY <2>2 DEF RunRecord
      <3>2. sweeps[TaskOf[q]]["dir"] > 0
        BY <1>9, <2>2 DEF Sweep
      <3> QED BY <2>2, <3>1, <3>2 DEF MessageMoves
    <2> QED BY <1>0, <2>1, <2>2
  <1>10. ASSUME NEW t \in Task, Cancel(t) PROVE MessageMoves(q)
    <2>1. run'[q] = run[q] \/ run'[q] = [run[q] EXCEPT !.pc = "done"]
      BY <1>10 DEF Cancel
    <2>2. ASSUME run'[q] = [run[q] EXCEPT !.pc = "done"]
          PROVE  run'[q].pc = "done" /\ run'[q].attempt = run[q].attempt /\ run'[q].torn = run[q].torn
      BY <2>2 DEF RunRecord
    <2> QED BY <1>0, <2>1, <2>2 DEF MessageMoves
  <1>11. ASSUME NEW r \in Run, FinalizeStep(r) \/ CrashFinalize(r) PROVE MessageMoves(q)
    BY <1>0, <1>11 DEF FinalizeStep, Finalize, PruneOne, FinishFinalize, CrashFinalize
  <1>12. ASSUME NEW r \in Run, NEW s \in Storage, UploadStep(r, s) \/ CrashUpload(r, s)
         PROVE  MessageMoves(q)
    BY <1>0, <1>12 DEF UploadStep, PickUp, Store, Reject, RetryUpload, BreakUpload, CrashUpload
  <1>13. ASSUME \/ \E status \in NodeStatus : SetNode(status)
                \/ MoveGate
                \/ \E t \in Task : Destroy(t)
                \/ UNCHANGED vars
         PROVE  MessageMoves(q)
    BY <1>0, <1>13 DEF SetNode, MoveGate, Destroy, vars
  <1> QED
    BY <1>2, <1>3, <1>4, <1>5, <1>7, <1>8, <1>9, <1>10, <1>11, <1>12, <1>13
    DEF Next, RunStep, OperatorStep, CrashStep

\* The guard refuses a backup only while another is in flight, as its comment says, as long as
\* nothing leaves an active row behind: a pause does (the run "refused"), these faults do not.
THEOREM GuardRefusesRightly ==
    ASSUME Harmless
    PROVE  Spec => GuardRefusesOnlyInFlight
  <1>1. TypeOK /\ ActiveHasWork /\ [Next]_vars =>
           [\A r \in Run : run[r].pc # "skipped" /\ run'[r].pc = "skipped" =>
               \E t \in Task \ {TaskOf[r]} : Active(t) /\ InFlight(t)]_vars
    <2> SUFFICES ASSUME TypeOK, ActiveHasWork, [Next]_vars,
                        NEW r \in Run, run[r].pc # "skipped", run'[r].pc = "skipped"
                 PROVE  \E t \in Task \ {TaskOf[r]} : Active(t) /\ InFlight(t)
      OBVIOUS
    <2>1. SkipDuplicate(r)
      BY MessageSteps DEF MessageMoves
    <2>2. PICK t \in Task \ {TaskOf[r]} : Active(t)
      BY <2>1 DEF SkipDuplicate, OtherActive
    <2> QED BY <2>2 DEF ActiveHasWork
  <1> QED BY <1>1, ActivesHaveWork, TypeCorrect, PTL DEF Spec, GuardRefusesOnlyInFlight

-----------------------------------------------------------------------------
(* Torn archives.                                                          *)

Retried(t) == \E r \in RunsOf(t) : run[r].attempt > 0
Swept(t) == \E r \in RunsOf(t) : run[r].attempt > 0 \/ run[r].pc \in Left

\* An archive without all of its files is the work of a retry: the first attempt of a backup that
\* no operator touched has no earlier attempt whose sweep could take its working directory.
FirstAttemptIsWhole ==
    \A t \in Untouched, s \in Storage : copy[t][s] = "torn" => Retried(t)

\* A sweep of a directory is queued by an attempt that is over, so a directory that is swept under
\* its dump, the archive built from it and the copies of that archive belong to a retry.
TornInv ==
    /\ \A r \in Run : run[r].attempt > 0 => run[r].pc # "unsent"
    /\ \A t \in Untouched : sweeps[t]["dir"] > 0 => Swept(t)
    /\ \A t \in Untouched : \A r \in RunsOf(t) : run[r].torn => run[r].attempt > 0
    /\ \A t \in Untouched : zip[t] = "torn" => Retried(t)
    /\ FirstAttemptIsWhole

LEMMA QueueOnly ==
    ASSUME TypeOK, NEW u \in Task, NEW n,
           sweeps' = QueueDir(u) \/ sweeps' = QueueBoth(u, n)
    PROVE  \A t \in Task \ {u} : sweeps'[t] = sweeps[t]
  BY DEF TypeOK, QueueDir, QueueBoth

\* Only an attempt that is over, or an operator, asks for a working directory to be deleted.
LEMMA DirSweeps ==
    ASSUME TypeOK, GuardInv, [Next]_vars, NEW t \in Task, sweeps'[t]["dir"] > sweeps[t]["dir"]
    PROVE  t \in touched' \/ Swept(t)'
  <1> USE OutcomeDomains, TaskOfRun DEF Left
  <1>0. sweeps'[t] # sweeps[t]
    BY DEF TypeOK, SweepKind
  <1>1. sweeps' # sweeps
    BY <1>0
  <1>2. ASSUME NEW r \in Run, \A u \in Task \ {TaskOf[r]} : sweeps'[u] = sweeps[u],
               run'[r].attempt > 0 \/ run'[r].pc \in Left
        PROVE  Swept(t)'
    BY <1>0, <1>2 DEF Swept, RunsOf
  <1>3. ASSUME NEW r \in Run, RetryOrGiveUp(r) PROVE run'[r].attempt > 0 \/ run'[r].pc \in Left
    BY <1>3, RetryOnly
  <1>4. ASSUME NEW r \in Run, FailAttempt(r) PROVE Swept(t)'
    <2>1. sweeps' = QueueBoth(TaskOf[r], 1)
      BY <1>1, <1>4 DEF FailAttempt
    <2>2. RetryOrGiveUp(r)
      BY <1>4 DEF FailAttempt
    <2> QED BY <1>2, <1>3, <2>1, <2>2, QueueOnly
  <1>5. ASSUME NEW r \in Run, TimeOut(r) PROVE Swept(t)'
    <2>1. \A u \in Task \ {TaskOf[r]} : sweeps'[u] = sweeps[u]
      BY <1>5, QueueOnly DEF TimeOut
    <2>2. run' = [run EXCEPT ![r].pc = "done"]
      BY <1>5 DEF TimeOut
    <2>3. run'[r].pc = "done"
      BY <2>2, PcOnly
    <2> QED BY <1>2, <2>1, <2>3
  <1>6. ASSUME NEW r \in Run, Dispatch(r) \/ DispatchRefused(r) PROVE Swept(t)'
    <2>1. sweeps' = QueueDir(TaskOf[r])
      BY <1>6 DEF Dispatch, DispatchRefused, BuildArchive
    <2>2. run' = [run EXCEPT ![r].pc = "dispatched"] \/ RetryOrGiveUp(r)
      <3>1. CASE Dispatch(r)
        BY <3>1 DEF Dispatch
      <3>2. CASE DispatchRefused(r) /\ Swallow
        BY <3>2 DEF DispatchRefused
      <3>3. CASE DispatchRefused(r) /\ ~ Swallow
        BY <3>3 DEF DispatchRefused
      <3> QED BY <1>6, <3>1, <3>2, <3>3
    <2>3. run' = [run EXCEPT ![r].pc = "dispatched"] => run'[r].pc = "dispatched"
      BY PcOnly
    <2>4. run'[r].attempt > 0 \/ run'[r].pc \in Left
      BY <1>3, <2>2, <2>3
    <2> QED BY <1>2, <2>1, <2>4, QueueOnly
  <1>7. ASSUME NEW r \in Run, FinishFinalize(r) PROVE Swept(t)'
    <2>1. sweeps' = QueueBoth(TaskOf[r], 1) /\ run' = run /\ chord[r] = "pruning"
      BY <1>7 DEF FinishFinalize
    <2>2. run[r].pc \in Left
      BY <2>1 DEF GuardInv, ChordAfterWork
    <2> QED BY <1>2, <2>1, <2>2, QueueOnly
  <1>8. ASSUME NEW u \in Task, NEW k \in SweepKind, Sweep(u, k) PROVE FALSE
    BY <1>8 DEF Sweep, TypeOK, SweepKind
  <1>9. ASSUME NEW u \in Task, Cancel(u) PROVE t \in touched'
    <2>1. sweeps' = QueueBoth(u, 1) /\ touched' = touched \cup {u}
      BY <1>9 DEF Cancel
    <2> QED BY <1>0, <2>1, QueueOnly
  <1>10. ASSUME NEW r \in Run,
                Send(r) \/ TurnAway(r) \/ SkipDuplicate(r) \/ Initiate(r) \/ AttachStorage(r)
                \/ BeginDump(r) \/ SaveNode(r)
         PROVE  FALSE
    BY <1>1, <1>10
    DEF Send, TurnAway, SkipDuplicate, Initiate, AttachStorage, BeginDump, SaveNode
  <1>11. ASSUME NEW r \in Run, Finalize(r) \/ PruneOne(r) PROVE FALSE
    BY <1>1, <1>11 DEF Finalize, PruneOne
  <1>12. ASSUME NEW r \in Run, NEW s \in Storage, UploadStep(r, s) PROVE FALSE
    BY <1>1, <1>12 DEF UploadStep, PickUp, Store, Reject, RetryUpload, BreakUpload
  <1>13. CrashStep => FALSE
    BY <1>1 DEF CrashStep, CrashRun, CrashFinalize, CrashUpload
  <1>14. ASSUME \/ \E status \in NodeStatus : SetNode(status)
                \/ MoveGate
                \/ \E u \in Task : Destroy(u)
                \/ \E r \in Run : Resend(r)
                \/ UNCHANGED vars
         PROVE  FALSE
    BY <1>1, <1>14 DEF SetNode, MoveGate, Destroy, Resend, vars
  <1> QED
    BY <1>4, <1>5, <1>6, <1>7, <1>8, <1>9, <1>10, <1>11, <1>12, <1>13, <1>14
    DEF Next, RunStep, FinalizeStep, OperatorStep

\* An archive is torn when it is built from a torn directory, a copy when the archive is.
LEMMA TornSteps ==
    ASSUME TypeOK, [Next]_vars, NEW t \in Task
    PROVE  /\ zip'[t] = "torn" => zip[t] = "torn" \/ \E r \in RunsOf(t) : run[r].torn
           /\ \A s \in Storage : copy'[t][s] = "torn" => copy[t][s] = "torn" \/ zip[t] = "torn"
  <1> DEFINE Z == zip'[t] = "torn" => zip[t] = "torn" \/ \E r \in RunsOf(t) : run[r].torn
             C == \A s \in Storage : copy'[t][s] = "torn" => copy[t][s] = "torn" \/ zip[t] = "torn"
  <1> USE OutcomeDomains, TaskOfRun
  <1>1. zip \in [Task -> Content] /\ copy \in [Task -> [Storage -> Content]]
    BY DEF TypeOK
  <1>2. ASSUME UNCHANGED <<zip, copy>> PROVE Z /\ C
    BY <1>2
  <1>3. ASSUME NEW r \in Run, BuildArchive(r), UNCHANGED copy PROVE Z /\ C
    <2>1. Z
      BY <1>1, <1>3 DEF BuildArchive, RunsOf
    <2> QED BY <1>3, <2>1
  <1>4. ASSUME NEW r \in Run, NEW s \in Storage, Store(r, s) PROVE Z /\ C
    <2>1. zip' = zip /\ copy' = [copy EXCEPT ![TaskOf[r]][s] = zip[TaskOf[r]]]
      BY <1>4 DEF Store
    <2>2. ASSUME NEW z \in Storage PROVE copy'[t][z] = copy[t][z] \/ copy'[t][z] = zip[t]
      BY <1>1, <2>1
    <2> QED BY <2>1, <2>2
  <1>5. ASSUME NEW u \in Task, NEW F, SoftDelete(u, F), UNCHANGED zip PROVE Z /\ C
    <2>1. copy' = [copy EXCEPT ![u] = [s \in Storage |-> IF s \in F THEN copy[u][s] ELSE "none"]]
      BY <1>5 DEF SoftDelete
    <2>2. ASSUME NEW z \in Storage PROVE copy'[t][z] = copy[t][z] \/ copy'[t][z] = "none"
      BY <1>1, <2>1
    <2> QED BY <1>5, <2>2
  <1>6. ASSUME NEW r \in Run, Dispatch(r) \/ DispatchRefused(r) PROVE Z /\ C
    BY <1>3, <1>6 DEF Dispatch, DispatchRefused
  <1>7. ASSUME NEW r \in Run, PruneOne(r) PROVE Z /\ C
    <2>1. UNCHANGED zip /\ \E u \in victims[r] : \E F \in SUBSET Storage : SoftDelete(u, F)
      BY <1>7 DEF PruneOne
    <2>2. victims[r] \subseteq Task
      BY DEF TypeOK
    <2> QED BY <1>5, <2>1, <2>2
  <1>8. ASSUME NEW u \in Task, Destroy(u) PROVE Z /\ C
    BY <1>5, <1>8 DEF Destroy
  <1>9. ASSUME NEW r \in Run,
               Send(r) \/ TurnAway(r) \/ SkipDuplicate(r) \/ Initiate(r) \/ AttachStorage(r)
               \/ BeginDump(r) \/ FailAttempt(r) \/ TimeOut(r) \/ SaveNode(r)
        PROVE  Z /\ C
    BY <1>2, <1>9 DEF Send, TurnAway, SkipDuplicate, Initiate, AttachStorage, BeginDump,
                      FailAttempt, TimeOut, SaveNode
  <1>10. ASSUME NEW r \in Run, Finalize(r) \/ FinishFinalize(r) PROVE Z /\ C
    BY <1>2, <1>10 DEF Finalize, FinishFinalize
  <1>11. ASSUME NEW r \in Run, NEW s \in Storage, UploadStep(r, s), ~ Store(r, s) PROVE Z /\ C
    BY <1>2, <1>11 DEF UploadStep, PickUp, Reject, RetryUpload, BreakUpload
  <1>12. ASSUME CrashStep PROVE Z /\ C
    BY <1>2, <1>12 DEF CrashStep, CrashRun, CrashFinalize, CrashUpload
  <1>13. ASSUME \/ \E u \in Task, k \in SweepKind : Sweep(u, k)
                \/ \E status \in NodeStatus : SetNode(status)
                \/ MoveGate
                \/ \E u \in Task : Cancel(u)
                \/ \E r \in Run : Resend(r)
                \/ UNCHANGED vars
         PROVE  Z /\ C
    BY <1>2, <1>13 DEF Sweep, SetNode, MoveGate, Cancel, Resend, vars
  <1>14. ASSUME NEW r \in Run, NEW s \in Storage, UploadStep(r, s) PROVE Z /\ C
    BY <1>4, <1>11, <1>14
  <1>15. Z /\ C
    <2> HIDE DEF Z, C
    <2> QED BY <1>6, <1>7, <1>8, <1>9, <1>10, <1>12, <1>13, <1>14
        DEF Next, RunStep, FinalizeStep, OperatorStep
  <1> QED BY <1>15

LEMMA TouchedGrows ==
    ASSUME [Next]_vars
    PROVE  touched \subseteq touched'
  <1>1. ASSUME NEW r \in Run, Send(r) \/ RunStep(r) PROVE UNCHANGED touched
    BY <1>1 DEF Send, RunStep, TurnAway, SkipDuplicate, Initiate, AttachStorage, BeginDump,
                FailAttempt, TimeOut, Dispatch, DispatchRefused, SaveNode
  <1>2. ASSUME NEW r \in Run, FinalizeStep(r) PROVE UNCHANGED touched
    BY <1>2 DEF FinalizeStep, Finalize, PruneOne, FinishFinalize
  <1>3. ASSUME NEW r \in Run, NEW s \in Storage, UploadStep(r, s) PROVE UNCHANGED touched
    BY <1>3 DEF UploadStep, PickUp, Store, Reject, RetryUpload, BreakUpload
  <1>4. ASSUME OperatorStep PROVE touched \subseteq touched'
    BY <1>4 DEF OperatorStep, SetNode, MoveGate, Cancel, Destroy, Resend
  <1>5. ASSUME CrashStep PROVE UNCHANGED touched
    BY <1>5 DEF CrashStep, CrashRun, CrashFinalize, CrashUpload
  <1>6. ASSUME NEW t \in Task, NEW k \in SweepKind, Sweep(t, k) PROVE UNCHANGED touched
    BY <1>6 DEF Sweep
  <1> QED BY <1>1, <1>2, <1>3, <1>4, <1>5, <1>6 DEF Next, vars

LEMMA TornStep ==
    ASSUME TypeOK, GuardInv, TornInv, [Next]_vars
    PROVE  TornInv'
  <1> USE OutcomeDomains, TaskOfRun
  <1>1. \A q \in Run : run'[q].attempt > 0 => run'[q].pc # "unsent"
    BY MessageSteps DEF MessageMoves, TornInv
  <1>2. \A t \in Untouched' : t \in Untouched
    BY TouchedGrows DEF Untouched
  <1>3. ASSUME NEW t \in Task PROVE (Retried(t) => Retried(t)') /\ (Swept(t) => Swept(t)')
    BY MessageSteps DEF MessageMoves, Retried, Swept, RunsOf
  <1>4. ASSUME NEW t \in Untouched', sweeps'[t]["dir"] > 0 PROVE Swept(t)'
    <2>1. sweeps[t]["dir"] \in Nat /\ t \in Untouched
      BY <1>2 DEF TypeOK, SweepKind, Untouched
    <2>2. CASE sweeps[t]["dir"] > 0
      BY <1>3, <2>1, <2>2 DEF TornInv, Untouched
    <2>3. CASE sweeps'[t]["dir"] > sweeps[t]["dir"]
      BY <1>4, <2>1, <2>3, DirSweeps DEF Untouched
    <2> QED BY <1>4, <2>1, <2>2, <2>3
  <1>5. ASSUME NEW t \in Untouched', NEW r \in RunsOf(t), run'[r].torn PROVE run'[r].attempt > 0
    <2>1. r \in Run /\ TaskOf[r] = t /\ t \in Untouched
      BY <1>2 DEF RunsOf
    <2>2. CASE run[r].torn
      BY <2>1, <2>2, MessageSteps DEF MessageMoves, TornInv
    <2>3. CASE run[r].pc = "dumping" /\ sweeps[t]["dir"] > 0
      <3>1. PICK q \in RunsOf(t) : run[q].attempt > 0 \/ run[q].pc \in Left
        BY <2>1, <2>3 DEF TornInv, Swept
      <3>2. run[q].pc # "unsent" /\ run[r].pc # "unsent"
        BY <2>3, <3>1 DEF TornInv, Left, RunsOf
      <3>3. q = r
        BY <2>1, <3>1, <3>2 DEF GuardInv, OneRun, RunsOf
      <3> QED BY <2>1, <2>3, <3>1, <3>3, MessageSteps DEF MessageMoves, Left
    <2> QED BY <1>5, <2>1, <2>2, <2>3, MessageSteps DEF MessageMoves
  <1>6. ASSUME NEW t \in Untouched', zip'[t] = "torn" PROVE Retried(t)'
    <2>1. t \in Untouched /\ t \in Task
      BY <1>2 DEF Untouched
    <2>2. zip[t] = "torn" \/ \E r \in RunsOf(t) : run[r].torn
      BY <1>6, <2>1, TornSteps
    <2> QED BY <1>3, <2>1, <2>2 DEF TornInv, Retried
  <1>7. ASSUME NEW t \in Untouched', NEW s \in Storage, copy'[t][s] = "torn" PROVE Retried(t)'
    <2>1. t \in Untouched /\ t \in Task
      BY <1>2 DEF Untouched
    <2>2. copy[t][s] = "torn" \/ zip[t] = "torn"
      BY <1>7, <2>1, TornSteps
    <2> QED BY <1>3, <2>1, <2>2 DEF TornInv, FirstAttemptIsWhole
  <1>8. \A t \in Task : RunsOf(t)' = RunsOf(t)
    BY DEF RunsOf
  <1>9. Untouched' \subseteq Task
    BY DEF Untouched
  <1>10. FirstAttemptIsWhole'
    BY <1>7 DEF FirstAttemptIsWhole
  <1>11. \A t \in Untouched' : \A r \in RunsOf(t)' : run'[r].torn => run'[r].attempt > 0
    BY <1>5, <1>8, <1>9
  <1> QED BY <1>1, <1>4, <1>6, <1>10, <1>11 DEF TornInv

\* A torn archive (the run "torn") is the work of a retry: whatever crashes, is refused, paused or
\* sent late, the archive of a backup's only attempt holds all that was dumped.
THEOREM FirstAttemptsAreWhole == Spec => []FirstAttemptIsWhole
  <1>1. Init => TornInv
    BY DEF Init, TornInv, FirstAttemptIsWhole, SweepKind, Untouched, RunsOf
  <1>2. TypeOK /\ GuardInv /\ TornInv /\ [Next]_vars => TornInv'
    BY TornStep
  <1>3. TornInv => FirstAttemptIsWhole
    BY DEF TornInv
  <1> QED BY <1>1, <1>2, <1>3, TypeCorrect, GuardHolds, PTL DEF Spec

-----------------------------------------------------------------------------
(* Archives on local disk.                                                 *)

\* The chord of the run will end in finalize_backup, hence in a sweep.
WillFinalize(r) ==
    \/ chord[r] \in {"queued", "pruning"}
    \/ chord[r] = "open" /\ \A s \in Storage : up[r][s].st \notin {"broken", "lost"}

\* An archive on local disk has a sweep pending, or a chord that will ask for one.
ArchiveHasSweeper ==
    \A t \in onDisk : sweeps[t]["zip"] > 0 \/ \E r \in RunsOf(t) : WillFinalize(r)

\* The faults that can leave an archive behind: a worker that dies, an upload that raises, so
\* that its chord never calls back, and a refused chord.
Tidy == Env \cap {"crash", "break", "broker"} = {}

\* What a step does, but for the chords: an archive appears with its chord and goes with a sweep,
\* and only a sweep takes a sweep away.
LEMMA ArchiveMoves ==
    ASSUME Tidy, TypeOK, [Next]_vars, NEW t \in Task
    PROVE  /\ \/ t \in onDisk' => t \in onDisk
              \/ \E r \in RunsOf(t) : Dispatch(r)
           /\ \/ sweeps'[t]["zip"] >= sweeps[t]["zip"]
              \/ t \notin onDisk'
  <1> DEFINE D == (t \in onDisk' => t \in onDisk) \/ \E r \in RunsOf(t) : Dispatch(r)
             S == sweeps'[t]["zip"] >= sweeps[t]["zip"] \/ t \notin onDisk'
  <1> USE OutcomeDomains, TaskOfRun DEF SweepKind
  <1>1. /\ sweeps \in [Task -> [SweepKind -> Nat]]
        /\ sweeps[t]["zip"] \in Nat
    BY DEF TypeOK
  <1>2. ASSUME UNCHANGED <<onDisk, sweeps>> PROVE D /\ S
    BY <1>1, <1>2
  <1>3. ASSUME NEW u \in Task, NEW n \in Nat, sweeps' = QueueBoth(u, n), UNCHANGED onDisk
        PROVE  D /\ S
    <2>1. sweeps'[t]["zip"] \in {sweeps[t]["zip"], sweeps[t]["zip"] + n}
      BY <1>1, <1>3 DEF QueueBoth
    <2> QED BY <1>1, <1>3, <2>1
  <1>4. ASSUME NEW r \in Run, Dispatch(r) PROVE D /\ S
    <2>1. sweeps' = QueueDir(TaskOf[r]) /\ onDisk' = onDisk \cup {TaskOf[r]}
      BY <1>4 DEF Dispatch, BuildArchive
    <2>2. sweeps'[t]["zip"] = sweeps[t]["zip"]
      BY <1>1, <2>1 DEF QueueDir
    <2>3. D
      BY <1>4, <2>1 DEF RunsOf
    <2> QED BY <1>1, <2>2, <2>3
  <1>5. ASSUME NEW u \in Task, NEW k \in SweepKind, Sweep(u, k) PROVE D /\ S
    <2>1. /\ sweeps' = [sweeps EXCEPT ![u][k] = sweeps[u][k] - 1]
          /\ onDisk' = IF k = "zip" THEN onDisk \ {u} ELSE onDisk
      BY <1>5 DEF Sweep
    <2>2. CASE u = t /\ k = "zip"
      BY <2>1, <2>2
    <2>3. CASE ~ (u = t /\ k = "zip")
      <3>1. sweeps'[t]["zip"] = sweeps[t]["zip"]
        BY <1>1, <2>1, <2>3
      <3> QED BY <1>1, <2>1, <3>1
    <2> QED BY <2>2, <2>3
  <1>6. ASSUME NEW r \in Run, FailAttempt(r) PROVE D /\ S
    BY <1>2, <1>3, <1>6 DEF FailAttempt
  <1>7. ASSUME NEW r \in Run, TimeOut(r) PROVE D /\ S
    <2>1. \E n \in {0, 1, 2} : sweeps' = QueueBoth(TaskOf[r], n)
      <3>1. CASE run[r].pc = "validating"
        BY <1>7, <3>1 DEF TimeOut
      <3>2. CASE run[r].pc = "dumping"
        BY <1>7, <3>2 DEF TimeOut
      <3>3. CASE run[r].pc \notin {"validating", "dumping"}
        BY <1>7, <3>3 DEF TimeOut
      <3> QED BY <3>1, <3>2, <3>3
    <2>2. UNCHANGED onDisk
      BY <1>7 DEF TimeOut
    <2> QED BY <1>3, <2>1, <2>2
  <1>8. ASSUME NEW r \in Run, FinishFinalize(r) PROVE D /\ S
    BY <1>3, <1>8 DEF FinishFinalize
  <1>9. ASSUME NEW u \in Task, Cancel(u) PROVE D /\ S
    BY <1>3, <1>9 DEF Cancel
  <1>10. ASSUME NEW r \in Run,
                \/ Send(r) \/ TurnAway(r) \/ SkipDuplicate(r) \/ Initiate(r) \/ AttachStorage(r)
                \/ BeginDump(r) \/ SaveNode(r) \/ Resend(r) \/ Finalize(r) \/ PruneOne(r)
         PROVE  D /\ S
    BY <1>2, <1>10 DEF Send, TurnAway, SkipDuplicate, Initiate, AttachStorage, BeginDump, SaveNode,
                       Resend, Finalize, PruneOne
  <1>11. ASSUME NEW r \in Run, NEW s \in Storage, UploadStep(r, s) PROVE D /\ S
    BY <1>2, <1>11 DEF UploadStep, PickUp, Store, Reject, RetryUpload, BreakUpload
  <1>12. ASSUME \/ \E status \in NodeStatus : SetNode(status)
                \/ MoveGate
                \/ \E u \in Task : Destroy(u)
                \/ UNCHANGED vars
         PROVE  D /\ S
    BY <1>2, <1>12 DEF SetNode, MoveGate, Destroy, vars
  <1>13. ~ CrashStep /\ \A r \in Run : ~ DispatchRefused(r)
    BY DEF Tidy, CrashStep, CrashRun, CrashFinalize, CrashUpload, DispatchRefused
  <1>14. D /\ S
    <2> HIDE DEF D, S
    <2> QED BY <1>4, <1>5, <1>6, <1>7, <1>8, <1>9, <1>10, <1>11, <1>12, <1>13
        DEF Next, RunStep, FinalizeStep, OperatorStep
  <1> QED BY <1>14

\* A chord that will be finalized still will be, unless a sweep of its archive is asked for.
LEMMA FinalizeMoves ==
    ASSUME Tidy, TypeOK, GuardInv, OutcomeInv, [Next]_vars, NEW t \in Task, NEW r \in RunsOf(t),
           WillFinalize(r) \/ Dispatch(r)
    PROVE  WillFinalize(r)' \/ sweeps'[t]["zip"] > 0
  <1> DEFINE Goal == WillFinalize(r)' \/ sweeps'[t]["zip"] > 0
  <1> USE OutcomeDomains, TaskOfRun DEF SweepKind
  <1>1. r \in Run /\ TaskOf[r] = t
    BY DEF RunsOf
  <1>2. /\ sweeps \in [Task -> [SweepKind -> Nat]]
        /\ sweeps[t]["zip"] \in Nat
    BY DEF TypeOK
  <1>3. ASSUME chord'[r] = chord[r], up'[r] = up[r], WillFinalize(r) PROVE Goal
    BY <1>3 DEF WillFinalize
  <1>4. ASSUME sweeps' = QueueBoth(t, 1) PROVE Goal
    BY <1>2, <1>4 DEF QueueBoth
  <1>5. CASE Dispatch(r)
    <2>1. \A s \in Storage : up[r][s].st = "idle"
      BY <1>1, <1>5 DEF Dispatch, GuardInv, ChordAfterWork, UploadIsChorded
    <2>2. /\ up' = [up EXCEPT ![r] = [s \in Storage |-> IF s \in Ready(t)
                                                        THEN [up[r][s] EXCEPT !.st = "queued"]
                                                        ELSE up[r][s]]]
          /\ chord' = [chord EXCEPT ![r] = IF Ready(t) = {} THEN "queued" ELSE "open"]
      BY <1>1, <1>5 DEF Dispatch
    <2>3. \A s \in Storage : up'[r][s] \in {up[r][s], [up[r][s] EXCEPT !.st = "queued"]}
      BY <1>1, <2>2
    <2>4. \A s \in Storage : [up[r][s] EXCEPT !.st = "queued"].st = "queued"
      BY <1>1 DEF UploadRecord
    <2>5. \A s \in Storage : up'[r][s].st \in {"idle", "queued"}
      BY <2>1, <2>3, <2>4
    <2>6. chord'[r] \in {"queued", "open"}
      BY <1>1, <2>2
    <2> QED BY <2>5, <2>6 DEF WillFinalize
  <1>6. ASSUME NEW q \in Run, NEW s \in Storage, UploadStep(q, s), WillFinalize(r) PROVE Goal
    <2>1. /\ up'[q][s].st \in {"sending", "waiting", "ended"}
          /\ up[q][s].st \in UploadLive
      <3>1. CASE PickUp(q, s)
        BY <3>1 DEF PickUp, SetUpload, UploadRecord, UploadLive
      <3>2. CASE Store(q, s) \/ Reject(q, s)
        BY <3>2 DEF Store, Reject, SetUpload, UploadRecord, UploadLive
      <3>3. CASE RetryUpload(q, s)
        BY <3>3 DEF RetryUpload, SetUpload, UploadRecord, UploadLive
      <3>4. ~ BreakUpload(q, s)
        BY DEF Tidy, BreakUpload
      <3> QED BY <1>6, <3>1, <3>2, <3>3, <3>4 DEF UploadStep
    <2>2. /\ \A x \in Run \ {q} : chord'[x] = chord[x]
          /\ \A x \in Run, z \in Storage : <<x, z>> # <<q, s>> => up'[x][z] = up[x][z]
          /\ chord'[q] = ChordAfter(up'[q])
      <3>1. CASE Turn(q, s)
        BY <3>1 DEF Turn
      <3>2. CASE Store(q, s)
        BY <3>2 DEF Store, SetUpload
      <3> QED BY <1>6, <3>1, <3>2, TurnSteps DEF OutcomeInv
    <2>3. CASE q = r
      <3>1. chord[r] = "open"
        BY <1>1, <2>1, <2>3 DEF OutcomeInv, LiveIsOpen
      <3>2. \A z \in Storage : up'[r][z].st \notin {"broken", "lost"}
        BY <1>6, <2>1, <2>2, <2>3, <3>1 DEF WillFinalize
      <3> QED BY <2>2, <2>3, <3>2, NoFailAfter DEF WillFinalize
    <2>4. CASE q # r
      BY <1>1, <1>6, <2>2, <2>4 DEF WillFinalize
    <2> QED BY <2>3, <2>4
  <1>7. ASSUME NEW u \in Task, Cancel(u), WillFinalize(r) PROVE Goal
    <2>1. CASE u = t
      BY <1>4, <1>7, <2>1 DEF Cancel
    <2>2. CASE u # t
      <3>1. \A z \in Storage : up'[r][z] = up[r][z]
        BY <1>1, <1>7, <2>2, CancelMoved
      <3>2. chord'[r] = IF chord[r] = "open" THEN ChordAfter(up'[r]) ELSE chord[r]
        BY <1>1, <1>7, CancelMoved
      <3>3. CASE chord[r] = "open"
        <4>1. \A z \in Storage : up'[r][z].st \notin {"broken", "lost"}
          BY <1>7, <3>1, <3>3 DEF WillFinalize
        <4> QED BY <3>2, <3>3, <4>1, NoFailAfter DEF WillFinalize
      <3>4. CASE chord[r] # "open"
        BY <1>7, <3>2, <3>4 DEF WillFinalize
      <3> QED BY <3>3, <3>4
    <2> QED BY <2>1, <2>2
  <1>8. ASSUME NEW q \in Run, FinishFinalize(q), WillFinalize(r) PROVE Goal
    <2>1. CASE q = r
      BY <1>1, <1>4, <1>8, <2>1 DEF FinishFinalize
    <2>2. CASE q # r
      BY <1>1, <1>3, <1>8, <2>2 DEF FinishFinalize
    <2> QED BY <2>1, <2>2
  <1>9. ASSUME NEW q \in Run, Finalize(q), WillFinalize(r) PROVE Goal
    BY <1>1, <1>9 DEF Finalize, WillFinalize
  <1>10. ASSUME NEW q \in Run, Dispatch(q), WillFinalize(r) PROVE Goal
    <2>1. CASE q = r
      BY <1>5, <1>10, <2>1
    <2>2. CASE q # r
      BY <1>1, <1>3, <1>10, <2>2 DEF Dispatch
    <2> QED BY <2>1, <2>2
  <1>11. ASSUME NEW q \in Run, WillFinalize(r),
                \/ Send(q) \/ TurnAway(q) \/ SkipDuplicate(q) \/ Initiate(q) \/ AttachStorage(q)
                \/ BeginDump(q) \/ FailAttempt(q) \/ TimeOut(q) \/ SaveNode(q) \/ Resend(q)
                \/ PruneOne(q)
         PROVE  Goal
    BY <1>3, <1>11 DEF Send, TurnAway, SkipDuplicate, Initiate, AttachStorage, BeginDump,
                       FailAttempt, TimeOut, SaveNode, Resend, PruneOne
  <1>12. ASSUME WillFinalize(r),
                \/ \E u \in Task, k \in SweepKind : Sweep(u, k)
                \/ \E status \in NodeStatus : SetNode(status)
                \/ MoveGate
                \/ \E u \in Task : Destroy(u)
                \/ UNCHANGED vars
         PROVE  Goal
    BY <1>3, <1>12 DEF Sweep, SetNode, MoveGate, Destroy, vars
  <1>13. ~ CrashStep /\ \A q \in Run : ~ DispatchRefused(q)
    BY DEF Tidy, CrashStep, CrashRun, CrashFinalize, CrashUpload, DispatchRefused
  <1>14. ASSUME WillFinalize(r) PROVE Goal
    <2> HIDE DEF Goal
    <2> QED BY <1>6, <1>7, <1>8, <1>9, <1>10, <1>11, <1>12, <1>13, <1>14
        DEF Next, RunStep, FinalizeStep, OperatorStep
  <1> QED BY <1>5, <1>14

\* No archive is forgotten on local disk, whatever operators cancel, delete, pause and re-send
\* and whatever ends in between.  The faults of Tidy each leave one behind: nothing sweeps the
\* disk but the messages that finalize_backup, failures and cancels send.
THEOREM ArchivesAreSwept ==
    ASSUME Tidy
    PROVE  Spec => []ArchiveHasSweeper
  <1>1. Init => ArchiveHasSweeper
    BY DEF Init, ArchiveHasSweeper
  <1>2. TypeOK /\ GuardInv /\ OutcomeInv /\ ArchiveHasSweeper /\ [Next]_vars => ArchiveHasSweeper'
    <2> SUFFICES ASSUME TypeOK, GuardInv, OutcomeInv, ArchiveHasSweeper, [Next]_vars,
                        NEW t \in onDisk'
                 PROVE  sweeps'[t]["zip"] > 0 \/ \E r \in RunsOf(t) : WillFinalize(r)'
      BY DEF ArchiveHasSweeper, RunsOf
    <2>1. t \in Task
      BY StepTypeOK DEF TypeOK
    <2>2. sweeps[t]["zip"] \in Nat /\ sweeps'[t]["zip"] \in Nat
      BY <2>1, StepTypeOK DEF TypeOK, SweepKind
    <2>3. ASSUME NEW r \in RunsOf(t), WillFinalize(r) \/ Dispatch(r)
          PROVE  sweeps'[t]["zip"] > 0 \/ WillFinalize(r)'
      BY <2>1, <2>3, FinalizeMoves
    <2>4. CASE \E r \in RunsOf(t) : Dispatch(r)
      BY <2>3, <2>4
    <2>5. CASE t \in onDisk /\ sweeps[t]["zip"] > 0
      BY <2>1, <2>2, <2>5, ArchiveMoves
    <2>6. CASE t \in onDisk /\ \E r \in RunsOf(t) : WillFinalize(r)
      BY <2>3, <2>6
    <2> QED BY <2>1, <2>4, <2>5, <2>6, ArchiveMoves DEF ArchiveHasSweeper
  <1> QED BY <1>1, <1>2, OutcomeHolds, TypeCorrect, GuardHolds, PTL DEF Spec

=============================================================================
