------------------------------ MODULE Restore_proofs ------------------------------
(***************************************************************************)
(* Proofs about Restore, for any number of restores and files, both        *)
(* engines, and every choice of faults.                                    *)
(***************************************************************************)
EXTENDS Restore, TLAPS

-----------------------------------------------------------------------------
(* Types.                                                                  *)

LEMMA InitTypeOK == Init => TypeOK
  <1> SUFFICES ASSUME Init PROVE TypeOK
    OBVIOUS
  <1>1. /\ status \in [Restores -> RestoreStatus]
        /\ pc \in [Restores -> TaskState]
        /\ sweep \in [Restores -> SweepState]
    BY DEF Init, RestoreStatus, TaskState, SweepState
  <1>2. /\ left \in [Restores -> SUBSET File]
        /\ listed \in [Restores -> SUBSET File]
        /\ pushed \in [Restores -> SUBSET File]
        /\ wipe \in [Restores -> SUBSET File]
    BY DEF Init
  <1>3. site \in [File -> {"old", "restored", "removed"}]
    BY DEF Init
  <1> QED BY <1>1, <1>2, <1>3 DEF Init, TypeOK

LEMMA StepTypeOK == TypeOK /\ [Next]_vars => TypeOK'
  <1> SUFFICES ASSUME TypeOK, [Next]_vars PROVE TypeOK'
    OBVIOUS
  <1> USE DEF TypeOK, Advance, SetRow, task, disk, sweeper
  <1>1. ASSUME NEW r \in Restores, Request(r) PROVE TypeOK'
    BY <1>1 DEF Request, RestoreStatus, TaskState
  <1>2. ASSUME NEW r \in Restores, Start(r) PROVE TypeOK'
    BY <1>2 DEF Start, Others, RestoreStatus, TaskState, Working
  <1>3. ASSUME NEW r \in Restores, FetchBegin(r) PROVE TypeOK'
    BY <1>3 DEF FetchBegin, TaskState, Working
  <1>4. ASSUME NEW r \in Restores, FetchEnd(r) PROVE TypeOK'
    BY <1>4 DEF FetchEnd, TaskState, Working
  <1>5. ASSUME NEW r \in Restores, NEW f \in File, Extract(r, f) PROVE TypeOK'
    BY <1>5 DEF Extract
  <1>6. ASSUME NEW r \in Restores, List(r) PROVE TypeOK'
    BY <1>6 DEF List, TaskState, Working
  <1>7. ASSUME NEW r \in Restores, NEW f \in File, Push(r, f) PROVE TypeOK'
    BY <1>7 DEF Push
  <1>8. ASSUME NEW r \in Restores, Raise(r) PROVE TypeOK'
    BY <1>8 DEF Raise, QueueSweep, SweepRefused, RestoreStatus, Settled, TaskState, SweepState,
                Pending
  <1>9. ASSUME NEW r \in Restores, Finish(r) PROVE TypeOK'
    <2>1. site' \in [File -> {"old", "restored", "removed"}]
      BY <1>9 DEF Finish
    <2>2. sweep' \in [Restores -> SweepState] /\ wipe' = wipe /\ status' \in [Restores -> RestoreStatus]
      BY <1>9 DEF Finish, QueueSweep, SweepRefused, RestoreStatus, Settled, SweepState, Pending
    <2> QED BY <1>9, <2>1, <2>2 DEF Finish, TaskState
  <1>10. ASSUME NEW r \in Restores, SweepBegin(r) PROVE TypeOK'
    BY <1>10 DEF SweepBegin, SweepState, Pending
  <1>11. ASSUME NEW r \in Restores, NEW f \in File, Wipe(r, f) PROVE TypeOK'
    BY <1>11 DEF Wipe
  <1>12. ASSUME NEW r \in Restores, SweepEnd(r) PROVE TypeOK'
    BY <1>12 DEF SweepEnd, SweepState
  <1>13. CASE DeleteCopy
    BY <1>13 DEF DeleteCopy
  <1>14. ASSUME NEW r \in Restores, Crash(r) PROVE TypeOK'
    BY <1>14 DEF Crash, TaskState
  <1>15. CASE UNCHANGED vars
    BY <1>15 DEF vars
  <1> QED
    BY <1>1, <1>2, <1>3, <1>4, <1>5, <1>6, <1>7, <1>8, <1>9, <1>10, <1>11, <1>12, <1>13, <1>14,
       <1>15
    DEF Next, TaskStep, SweepStep, Fail, BreakDown

\* Every variable keeps its type: a restore is never given a status of backups.
THEOREM TypeCorrect == Spec => []TypeOK
  BY InitTypeOK, StepTypeOK, PTL DEF Spec

-----------------------------------------------------------------------------
(* A restore that meets no other one.                                      *)

\* A sweep comes after its restore, and removes only what it has listed.
SweepAfter ==
    \A r \in Restores :
        /\ sweep[r] # "none" => pc[r] = "done"
        /\ wipe[r] # {} => sweep[r] = "wiping"
        /\ status[r] = "COMPLETE" => pc[r] = "done"
        /\ status[r] = "none" => pc[r] = "none"

Alone ==
    \A r \in Restores \ shared :
        pc[r] \in Working =>
            \A q \in Restores \ {r} : pc[q] \notin Working /\ sweep[q] \notin Pending

\* It finds what it has extracted, lists all of it and pushes all it has listed.
Through ==
    \A r \in Restores \ shared :
        /\ pc[r] = "extracting" => File \subseteq tree \cup left[r]
        /\ pc[r] = "pushing" => listed[r] = File
        /\ status[r] = "COMPLETE" => pushed[r] = File

AloneInv == TypeOK /\ SweepAfter /\ Alone /\ Through /\ DeleteSparesTheBackup

LEMMA InitAloneInv == Init => AloneInv
  BY InitTypeOK DEF Init, AloneInv, SweepAfter, Alone, Through, DeleteSparesTheBackup, Working

\* A step in which restores only move on, sweeps only come to their ends and the tree only
\* grows.
LEMMA AloneOfTask ==
    ASSUME AloneInv, TypeOK', NEW r \in Restores,
           \/ FetchBegin(r) \/ FetchEnd(r) \/ (\E f \in File : Extract(r, f)) \/ List(r)
           \/ \E f \in File : Push(r, f)
    PROVE  AloneInv'
  <1>1. /\ pc[r] \in Working /\ pc'[r] \in Working
        /\ UNCHANGED <<status, sweep, wipe, shared>>
    BY DEF FetchBegin, FetchEnd, Extract, List, Push, Advance, Working, sweeper, AloneInv, TypeOK
  <1>2. \A q \in Restores : q # r => pc'[q] = pc[q]
    BY DEF FetchBegin, FetchEnd, Extract, List, Push, Advance, AloneInv, TypeOK
  <1>3. SweepAfter'
    BY <1>1, <1>2 DEF AloneInv, SweepAfter, Working
  <1>4. Alone'
    BY <1>1, <1>2 DEF AloneInv, Alone
  <1>5. ASSUME NEW q \in Restores \ shared, q # r
        PROVE  /\ pc'[q] = "extracting" => File \subseteq tree' \cup left'[q]
               /\ pc'[q] = "pushing" => listed'[q] = File
               /\ status'[q] = "COMPLETE" => pushed'[q] = File
    <2>1. pc'[q] \notin Working
      BY <1>1, <1>2, <1>5 DEF AloneInv, Alone
    <2>2. pushed'[q] = pushed[q]
      BY <1>5 DEF FetchBegin, FetchEnd, Extract, List, Push, task, AloneInv, TypeOK
    <2> QED BY <1>1, <2>1, <2>2 DEF AloneInv, Through, Working
  <1>6. status[r] # "COMPLETE"
    BY <1>1 DEF AloneInv, SweepAfter, Working
  <1>7. pc'[r] = "extracting" /\ r \notin shared => File \subseteq tree' \cup left'[r]
    <2>1. CASE FetchEnd(r)
      BY <2>1 DEF FetchEnd, AloneInv, TypeOK
    <2>2. ASSUME NEW f \in File, Extract(r, f)
          PROVE  pc[r] = "extracting" /\ tree \cup left[r] \subseteq tree' \cup left'[r]
      BY <2>2 DEF Extract, AloneInv, TypeOK
    <2>3. pc'[r] = "extracting" => FetchEnd(r) \/ \E f \in File : Extract(r, f)
      BY DEF FetchBegin, List, Push, Advance, AloneInv, TypeOK
    <2> QED BY <2>1, <2>2, <2>3 DEF AloneInv, Through
  <1>8. pc'[r] = "pushing" /\ r \notin shared => listed'[r] = File
    <2>1. CASE List(r)
      <3>1. listed'[r] = tree /\ tree \subseteq File
        BY <2>1 DEF List, AloneInv, TypeOK
      <3>2. r \notin shared => File \subseteq tree
        BY <2>1 DEF List, AloneInv, Through
      <3> QED BY <3>1, <3>2
    <2>2. ~ List(r) => pc[r] = pc'[r] \/ pc'[r] # "pushing"
      BY DEF FetchBegin, FetchEnd, Extract, Push, Advance, AloneInv, TypeOK
    <2>3. ~ List(r) => listed' = listed
      BY DEF FetchBegin, FetchEnd, Extract, Push, task
    <2> QED BY <2>1, <2>2, <2>3 DEF AloneInv, Through
  <1>9. Through'
    BY <1>1, <1>5, <1>6, <1>7, <1>8 DEF Through
  <1>10. DeleteSparesTheBackup'
    BY DEF FetchBegin, FetchEnd, Extract, List, Push, AloneInv, DeleteSparesTheBackup, TypeOK
  <1> QED BY <1>3, <1>4, <1>9, <1>10 DEF AloneInv

\* A restore that starts while another one is at work or being swept is not alone, and nor is
\* the other one.
LEMMA AloneOfStart ==
    ASSUME AloneInv, TypeOK', NEW r \in Restores, Start(r)
    PROVE  AloneInv'
  <1>1. /\ pc[r] = "queued" /\ pc' = [pc EXCEPT ![r] = "started"]
        /\ status' = [status EXCEPT ![r] = "IN_PROGRESS"]
        /\ UNCHANGED <<left, listed, pushed, tree, sweep, wipe, site>>
        /\ shared \subseteq shared'
    BY DEF Start, Advance, SetRow, task, disk, sweeper
  <1>2. /\ pc'[r] = "started" /\ status'[r] = "IN_PROGRESS"
        /\ \A q \in Restores : q # r => pc'[q] = pc[q] /\ status'[q] = status[q]
    BY <1>1 DEF AloneInv, TypeOK
  <1>3. SweepAfter'
    BY <1>1, <1>2 DEF AloneInv, SweepAfter
  <1>4. Alone'
    <2>1. CASE Others(r) = {} /\ \A q \in Restores \ {r} : sweep[q] \notin Pending
      BY <1>1, <1>2, <2>1 DEF Alone, Others
    <2>2. CASE ~ (Others(r) = {} /\ \A q \in Restores \ {r} : sweep[q] \notin Pending)
      <3>1. shared' = shared \cup Others(r) \cup {r}
        BY <2>2 DEF Start
      <3> QED BY <1>2, <3>1 DEF Alone, Others
    <2> QED BY <2>1, <2>2
  <1>5. Through'
    BY <1>1, <1>2 DEF AloneInv, Through
  <1>6. DeleteSparesTheBackup'
    BY <1>1 DEF AloneInv, DeleteSparesTheBackup
  <1> QED BY <1>3, <1>4, <1>5, <1>6 DEF AloneInv

\* A restore that ends leaves a sweep behind; whoever is at work then is not alone.
LEMMA AloneOfEnd ==
    ASSUME AloneInv, TypeOK', NEW r \in Restores, Raise(r) \/ Finish(r)
    PROVE  AloneInv'
  <1>1. /\ pc[r] \in Working /\ pc' = [pc EXCEPT ![r] = "done"]
        /\ status' = [status EXCEPT ![r] = status'[r]]
        /\ sweep' = [sweep EXCEPT ![r] = sweep'[r]]
        /\ UNCHANGED <<left, listed, pushed, tree, wipe, shared>>
    BY DEF Raise, Finish, Advance, SetRow, QueueSweep, SweepRefused, task, disk, Working, AloneInv,
           TypeOK
  <1>2. /\ pc'[r] = "done"
        /\ \A q \in Restores : q # r => pc'[q] = pc[q] /\ status'[q] = status[q] /\ sweep'[q] = sweep[q]
        /\ status'[r] \in Settled
    BY <1>1 DEF Raise, Finish, SetRow, Settled, AloneInv, TypeOK
  <1>3. \A q \in Restores \ shared : q # r => pc[q] \notin Working
    BY <1>1 DEF AloneInv, Alone
  <1>4. SweepAfter'
    <2>1. sweep[r] = "none" /\ wipe[r] = {}
      BY <1>1 DEF AloneInv, SweepAfter, Working, TypeOK
    <2> QED BY <1>1, <1>2, <2>1 DEF AloneInv, SweepAfter, Settled
  <1>5. Alone'
    BY <1>1, <1>2, <1>3 DEF Alone, Working
  <1>6. r \notin shared /\ status'[r] = "COMPLETE" => pushed[r] = File
    <2>1. CASE Raise(r)
      BY <2>1 DEF Raise, SetRow, AloneInv, TypeOK
    <2>2. CASE Finish(r)
      BY <2>2 DEF Finish, AloneInv, Through, TypeOK
    <2> QED BY <2>1, <2>2
  <1>7. Through'
    BY <1>1, <1>2, <1>6 DEF AloneInv, Through
  <1>8. DeleteSparesTheBackup'
    <2>1. CASE Raise(r)
      BY <1>1, <2>1 DEF Raise, AloneInv, DeleteSparesTheBackup
    <2>2. CASE Finish(r)
      <3>1. Deleting \cap shared = {} /\ r \in Deleting => listed[r] = File
        BY <2>2 DEF Finish, AloneInv, Through
      <3>2. Deleting \cap shared = {} => \A f \in File : site'[f] = site[f]
        BY <2>2, <3>1 DEF Finish
      <3> QED BY <1>1, <3>2 DEF AloneInv, DeleteSparesTheBackup
    <2> QED BY <2>1, <2>2
  <1> QED BY <1>4, <1>5, <1>7, <1>8 DEF AloneInv

LEMMA AloneOfSweep ==
    ASSUME AloneInv, TypeOK', NEW r \in Restores,
           SweepBegin(r) \/ SweepEnd(r) \/ \E f \in File : Wipe(r, f)
    PROVE  AloneInv'
  <1>1. /\ sweep[r] \in Pending /\ sweep' = [sweep EXCEPT ![r] = sweep'[r]]
        /\ wipe' = [wipe EXCEPT ![r] = wipe'[r]]
        /\ wipe'[r] # {} => sweep'[r] = "wiping"
        /\ UNCHANGED <<status, pc, left, listed, pushed, site, shared>>
    BY DEF SweepBegin, SweepEnd, Wipe, task, Pending, AloneInv, SweepAfter, TypeOK
  <1>2. \A q \in Restores : q # r => sweep'[q] = sweep[q] /\ wipe'[q] = wipe[q]
    BY <1>1 DEF AloneInv, TypeOK
  <1>3. pc[r] = "done"
    BY <1>1 DEF AloneInv, SweepAfter, Pending
  <1>4. SweepAfter'
    BY <1>1, <1>2, <1>3 DEF AloneInv, SweepAfter
  <1>5. \A q \in Restores \ shared : pc[q] \notin Working
    BY <1>1, <1>3 DEF AloneInv, Alone, Working
  <1>6. Alone' /\ Through'
    BY <1>1, <1>5 DEF AloneInv, Alone, Through, Working
  <1>7. DeleteSparesTheBackup'
    BY <1>1 DEF AloneInv, DeleteSparesTheBackup
  <1> QED BY <1>4, <1>6, <1>7 DEF AloneInv

\* A request adds a row, and a worker that dies leaves its row as it is.
LEMMA AloneOfRequest ==
    ASSUME AloneInv, TypeOK', NEW r \in Restores, Request(r) \/ Crash(r)
    PROVE  AloneInv'
  <1>1. /\ pc' = [pc EXCEPT ![r] = pc'[r]] /\ pc'[r] \in {"queued", "unsent", "dead"}
        /\ UNCHANGED <<left, listed, pushed, tree, sweep, wipe, site, shared>>
        /\ \/ status' = status /\ pc[r] \in Working
           \/ status' = [status EXCEPT ![r] = "PENDING"] /\ status[r] = "none"
    BY DEF Request, Crash, Advance, SetRow, task, disk, sweeper, AloneInv, TypeOK
  <1>2. /\ pc[r] # "done" /\ status[r] # "COMPLETE" /\ sweep[r] = "none" /\ status'[r] # "COMPLETE"
        /\ status'[r] # "none"
    BY <1>1 DEF AloneInv, SweepAfter, Working, TypeOK
  <1>3. \A q \in Restores : q # r => pc'[q] = pc[q] /\ status'[q] = status[q]
    BY <1>1 DEF AloneInv, TypeOK
  <1>4. SweepAfter'
    BY <1>1, <1>2, <1>3 DEF AloneInv, SweepAfter
  <1>5. Alone'
    BY <1>1, <1>3 DEF AloneInv, Alone, Working
  <1>6. Through'
    BY <1>1, <1>2, <1>3 DEF AloneInv, Through
  <1>7. DeleteSparesTheBackup'
    BY <1>1 DEF AloneInv, DeleteSparesTheBackup
  <1> QED BY <1>4, <1>5, <1>6, <1>7 DEF AloneInv

LEMMA StepAloneInv == AloneInv /\ [Next]_vars => AloneInv'
  <1> SUFFICES ASSUME AloneInv, [Next]_vars PROVE AloneInv'
    OBVIOUS
  <1>1. TypeOK'
    BY StepTypeOK DEF AloneInv
  <1>2. ASSUME NEW r \in Restores, TaskStep(r) \/ BreakDown(r) PROVE AloneInv'
    BY <1>1, <1>2, AloneOfTask, AloneOfStart, AloneOfEnd DEF TaskStep, BreakDown, Fail
  <1>3. ASSUME NEW r \in Restores, SweepStep(r) PROVE AloneInv'
    BY <1>1, <1>3, AloneOfSweep DEF SweepStep
  <1>4. CASE DeleteCopy \/ UNCHANGED vars
    BY <1>1, <1>4 DEF DeleteCopy, vars, task, disk, sweeper, AloneInv, SweepAfter, Alone, Through,
                      DeleteSparesTheBackup
  <1> QED BY <1>1, <1>2, <1>3, <1>4, AloneOfRequest DEF Next

LEMMA AloneInvariant == Spec => []AloneInv
  BY InitAloneInv, StepAloneInv, PTL DEF Spec

\* A restore that met no other one and says COMPLETE has put back every file of the backup
\* (restore_website, restore_database), whatever was lost, refused or deleted on the way.
THEOREM RestoresAreWhole == Spec => []CompleteMeansRestored
  <1>1. AloneInv => CompleteMeansRestored
    BY DEF AloneInv, Through, CompleteMeansRestored
  <1> QED BY <1>1, AloneInvariant, PTL

\* mirror -R --delete removes no file of the backup unless the deleting restore met another.
THEOREM DeletionSpares == Spec => []DeleteSparesTheBackup
  <1>1. AloneInv => DeleteSparesTheBackup
    BY DEF AloneInv
  <1> QED BY <1>1, AloneInvariant, PTL

-----------------------------------------------------------------------------
(* Working files.                                                          *)

\* A file in the tree has a restore at work, or a sweep that has not passed it by.
HandledBy(r, f) ==
    \/ pc[r] \in Working \cup {"dead"}
    \/ sweep[r] \in {"queued", "refused"}
    \/ sweep[r] = "wiping" /\ f \in wipe[r]

Busy(r) == pc[r] \in Working \cup {"dead"} \/ sweep[r] \in Pending \cup {"refused"}

FilesInv ==
    /\ \A f \in tree : \E r \in Restores : HandledBy(r, f)
    /\ zip # "none" => \E r \in Restores : Busy(r)

LEMMA InitFilesInv == Init => FilesInv
  BY DEF Init, FilesInv

\* A step after which every restore that had the files in hand still has them.
LEMMA FilesHandedOn ==
    ASSUME FilesInv, tree' \subseteq tree, zip' = zip \/ zip' = "none",
           \A r \in Restores : /\ \A f \in tree' : HandledBy(r, f) => HandledBy(r, f)'
                               /\ Busy(r) => Busy(r)'
    PROVE  FilesInv'
  BY DEF FilesInv

LEMMA FilesOfTask ==
    ASSUME AloneInv, FilesInv, NEW r \in Restores,
           \/ Start(r) \/ FetchBegin(r) \/ FetchEnd(r) \/ (\E f \in File : Extract(r, f)) \/ List(r)
           \/ \E f \in File : Push(r, f)
    PROVE  FilesInv'
  <1>1. /\ pc' = [pc EXCEPT ![r] = pc'[r]] /\ pc'[r] \in Working
        /\ UNCHANGED <<sweep, wipe>>
    BY DEF Start, FetchBegin, FetchEnd, Extract, List, Push, Advance, Working, sweeper, AloneInv,
           TypeOK
  <1>2. pc[r] # "dead" /\ \A q \in Restores : q # r => pc'[q] = pc[q]
    BY <1>1 DEF Start, FetchBegin, FetchEnd, Extract, List, Push, AloneInv, TypeOK
  <1>3. \A f \in tree' : HandledBy(r, f)'
    BY <1>1 DEF HandledBy
  <1>4. Busy(r)'
    BY <1>1 DEF Busy
  <1> QED BY <1>3, <1>4 DEF FilesInv

\* The finally clause hands the files from the restore to its sweep.
LEMMA FilesOfEnd ==
    ASSUME AloneInv, FilesInv, NEW r \in Restores, Raise(r) \/ Finish(r)
    PROVE  FilesInv'
  <1>1. sweep' = [sweep EXCEPT ![r] = sweep'[r]] /\ sweep'[r] \in {"queued", "refused"}
    BY DEF Raise, Finish, QueueSweep, SweepRefused, AloneInv, TypeOK
  <1>2. \A f \in tree' : HandledBy(r, f)'
    BY <1>1 DEF HandledBy
  <1>3. Busy(r)'
    BY <1>1 DEF Busy, Pending
  <1> QED BY <1>2, <1>3 DEF FilesInv

LEMMA FilesOfSweep ==
    ASSUME AloneInv, FilesInv, NEW r \in Restores,
           SweepBegin(r) \/ SweepEnd(r) \/ \E f \in File : Wipe(r, f)
    PROVE  FilesInv'
  <1>1. UNCHANGED pc
    BY DEF SweepBegin, SweepEnd, Wipe
  <1>2. CASE SweepBegin(r)
    <2>1. sweep'[r] = "wiping" /\ wipe'[r] = tree /\ tree' = tree /\ zip' = zip
      BY <1>2 DEF SweepBegin, disk, AloneInv, TypeOK
    <2>2. \A f \in tree' : HandledBy(r, f)'
      BY <2>1 DEF HandledBy
    <2>3. Busy(r)'
      BY <2>1 DEF Busy, Pending
    <2> QED BY <2>2, <2>3 DEF FilesInv
  <1>3. ASSUME NEW f \in File, Wipe(r, f) PROVE FilesInv'
    <2>1. /\ tree' = tree \ {f} /\ wipe' = [wipe EXCEPT ![r] = @ \ {f}] /\ UNCHANGED <<zip, sweep>>
      BY <1>3 DEF Wipe
    <2>2. \A q \in Restores : wipe[q] \ {f} \subseteq wipe'[q]
      BY <2>1 DEF AloneInv, TypeOK
    <2>3. \A q \in Restores : /\ \A g \in tree' : HandledBy(q, g) => HandledBy(q, g)'
                              /\ Busy(q) => Busy(q)'
      BY <1>1, <2>1, <2>2 DEF HandledBy, Busy
    <2> QED BY <2>1, <2>3, FilesHandedOn
  <1>4. CASE SweepEnd(r)
    <2>1. /\ sweep[r] = "wiping" /\ wipe[r] = {} /\ sweep' = [sweep EXCEPT ![r] = "done"]
          /\ tree' = tree /\ wipe' = wipe /\ zip' = "none"
      BY <1>4 DEF SweepEnd
    <2>2. pc[r] = "done"
      BY <2>1 DEF AloneInv, SweepAfter
    <2>3. ASSUME NEW f \in tree PROVE \E q \in Restores : HandledBy(q, f)'
      <3>1. PICK q \in Restores : HandledBy(q, f)
        BY DEF FilesInv
      <3>2. q # r
        BY <2>1, <2>2, <3>1 DEF HandledBy, Working
      <3>3. HandledBy(q, f)'
        BY <1>1, <2>1, <3>1, <3>2 DEF HandledBy, AloneInv, TypeOK
      <3> QED BY <3>3
    <2> QED BY <2>1, <2>3 DEF FilesInv
  <1> QED BY <1>2, <1>3, <1>4

LEMMA FilesOfRequest ==
    ASSUME AloneInv, FilesInv, NEW r \in Restores, Request(r) \/ Crash(r)
    PROVE  FilesInv'
  <1>1. /\ pc' = [pc EXCEPT ![r] = pc'[r]] /\ UNCHANGED <<zip, tree, sweep, wipe>>
        /\ pc[r] = "none" \/ pc'[r] = "dead"
    BY DEF Request, Crash, Advance, disk, sweeper, AloneInv, SweepAfter, TypeOK
  <1>2. \A q \in Restores : q # r => pc'[q] = pc[q]
    BY <1>1 DEF AloneInv, TypeOK
  <1>3. \A q \in Restores : /\ \A f \in tree' : HandledBy(q, f) => HandledBy(q, f)'
                            /\ Busy(q) => Busy(q)'
    BY <1>1, <1>2 DEF HandledBy, Busy, Working
  <1> QED BY <1>1, <1>3, FilesHandedOn

LEMMA FilesInvariant == Spec => []FilesInv
  <1>1. AloneInv /\ FilesInv /\ [Next]_vars => FilesInv'
    <2> SUFFICES ASSUME AloneInv, FilesInv, [Next]_vars PROVE FilesInv'
      OBVIOUS
    <2>1. ASSUME NEW r \in Restores, TaskStep(r) \/ BreakDown(r) PROVE FilesInv'
      BY <2>1, FilesOfTask, FilesOfEnd DEF TaskStep, BreakDown, Fail
    <2>2. CASE DeleteCopy \/ UNCHANGED vars
      BY <2>2, FilesHandedOn DEF DeleteCopy, vars, disk, sweeper, HandledBy, Busy
    <2> QED BY <2>1, <2>2, FilesOfRequest, FilesOfSweep DEF Next, SweepStep
  <1> QED BY <1>1, InitFilesInv, AloneInvariant, PTL DEF Spec

\* No archive and no extracted file stays on the local disk with neither a restore at work nor
\* a sweep to come, except by a dead worker or a refused sweep: also a file that was extracted
\* into a directory while another restore's sweep was emptying it.
THEOREM LeftoversAreSwept == Spec => []LeftoversHaveSweeper
  <1>1. FilesInv => LeftoversHaveSweeper
    BY DEF FilesInv, HandledBy, Busy, LeftoversHaveSweeper, Pending
  <1> QED BY <1>1, FilesInvariant, PTL
=============================================================================
