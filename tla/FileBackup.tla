------------------------------ MODULE FileBackup ------------------------------
(***************************************************************************)
(* The backup pipeline of one file-based node (website, database,          *)
(* WordPress, Basecamp).  A Celery task dumps the source to local disk and *)
(* starts one chord: a storage_upload per storage destination, then        *)
(* finalize_backup as the callback, which settles the backup row, applies  *)
(* the schedule's keep-last retention and sweeps the local files.          *)
(*                                                                         *)
(* A run is one message carrying a Celery task id.  Celery's own retries   *)
(* re-deliver the same run; the API's "retry" button sends a second run    *)
(* with the same task id, and so shares the backup row.                    *)
(*                                                                         *)
(* One step of the model is what a process does between two slow           *)
(* operations (a queue hop, a remote call, a dump, a transfer): the short  *)
(* run of database statements in between is one step.                      *)
(***************************************************************************)
EXTENDS Naturals, FiniteSets

CONSTANTS
    Task,              \* Celery task ids, hence backup rows, of the node
    Run,               \* messages that carry a task id
    TaskOf,            \* the task id each message carries
    Scheduled,         \* tasks fired by the node's schedule; the rest are on-demand
    Storage,           \* storage destinations configured for the node
    Drive,             \* those of them at Google Drive
    KeepLast,          \* CoreSchedule.keep_last (0: keep everything)
    MaxRetries,        \* dump retries (4 in the code)
    MaxUploadRetries,  \* upload retries (96 in the code)
    Swallow,           \* create_snapshot swallows a failed chord dispatch (all but databases)
    Env                \* which operator actions and faults the behaviours include

EnvKinds == {"pause",      \* an operator pauses and resumes the node
             "gate",       \* the schedule, connection or account is paused or deleted
             "cancel",     \* an operator cancels a backup
             "late",       \* a revocation may miss what it could have stopped
             "destroy",    \* an operator deletes a backup
             "resend",     \* an operator retries a backup through the API
             "crash",      \* a worker process dies (messages are acknowledged early)
             "broker",     \* the broker refuses the chord
             "break",      \* an upload task fails outside its try block, or is killed
             "latelimit",  \* the soft time limit strikes after the chord was sent
             "exception"}  \* finalize_backup raises while it prunes

ASSUME ConstantsAssumption ==
    /\ TaskOf \in [Run -> Task]
    /\ Scheduled \subseteq Task
    /\ Drive \subseteq Storage
    /\ IsFiniteSet(Task)
    /\ KeepLast \in Nat
    /\ MaxRetries \in Nat
    /\ MaxUploadRetries \in Nat
    /\ Swallow \in BOOLEAN
    /\ Env \subseteq EnvKinds

VARIABLES
    node,     \* CoreNode.status
    gate,     \* schedule, connection and account all admit a backup
    run,      \* worker side of each message
    backup,   \* UtilBackup.status of each task's row, "none" before it exists
    born,     \* creation order of the rows (the "created" column)
    point,    \* status of the backup's row for each storage destination
    copy,     \* the remote object (and storage_file_id) of each storage row
    up,       \* the storage_upload task of each run and destination
    chord,    \* the chord of each run, then its finalize_backup
    victims,  \* backups a finalize_backup has still to prune
    zip,      \* what the last archive built for a task contains
    onDisk,   \* tasks whose archive is on local disk
    sweeps,   \* delete_from_disk messages not yet executed
    touched   \* history: tasks an operator cancelled, deleted or re-sent

vars == <<node, gate, run, backup, born, point, copy, up, chord, victims,
          zip, onDisk, sweeps, touched>>

-----------------------------------------------------------------------------
(* Statuses.                                                               *)

ActiveStatus == {"IN_PROGRESS", "RETRYING", "DOWNLOAD_IN_PROGRESS",
                 "DOWNLOAD_COMPLETE", "UPLOAD_IN_PROGRESS"}
TerminalStatus == {"COMPLETE", "UPLOAD_FAILED", "TIMEOUT", "MAX_RETRY_FAILED",
                   "CANCELLED", "DELETE_COMPLETED"}
PointStatus == {"none", "UPLOAD_READY", "UPLOAD_IN_PROGRESS", "UPLOAD_RETRY",
                "UPLOAD_COMPLETE", "UPLOAD_FAILED", "CANCELLED",
                "DELETE_COMPLETED", "DELETE_FAILED"}
NodeStatus == {"ACTIVE", "PAUSED"}
SweepKind == {"dir", "zip"}
Content == {"none", "whole", "torn"}

Working == {"validating", "connecting", "dumping"}
RunState == Working \cup {"unsent", "queued", "dispatched", "waiting", "skipped", "done"}
UploadLive == {"queued", "sending", "waiting"}
UploadState == UploadLive \cup {"idle", "ended", "broken", "lost"}
ChordState == {"none", "open", "queued", "pruning", "done", "lost"}

Active(t) == backup[t] \in ActiveStatus
RunsOf(t) == {r \in Run : TaskOf[r] = t}
Sent(t) == \E r \in RunsOf(t) : run[r].pc # "unsent"

\* Work that will still act on the backup of t: a message, a worker, an upload or
\* a callback.
InFlight(t) ==
    \E r \in RunsOf(t) :
        \/ run[r].pc \in Working \cup {"queued", "waiting"}
        \/ chord[r] \in {"queued", "pruning"}
        \/ \E s \in Storage : up[r][s].st \in UploadLive

\* Mutant: every attached destination is counted.
Attached(t) == {s \in Storage : point[t][s] # "none"}

Uploaded(t) == {s \in Storage : point[t][s] = "UPLOAD_COMPLETE"}

BackupStatus == ActiveStatus \cup TerminalStatus \cup {"none"}
RunRecord == [pc : RunState, attempt : 0..MaxRetries, torn : BOOLEAN]
UploadRecord == [st : UploadState, tries : 0..MaxUploadRetries]

TypeOK ==
    /\ node \in NodeStatus
    /\ gate \in BOOLEAN
    /\ run \in [Run -> RunRecord]
    /\ backup \in [Task -> BackupStatus]
    /\ born \in [Task -> Nat]
    /\ point \in [Task -> [Storage -> PointStatus]]
    /\ copy \in [Task -> [Storage -> Content]]
    /\ up \in [Run -> [Storage -> UploadRecord]]
    /\ chord \in [Run -> ChordState]
    /\ victims \in [Run -> SUBSET Task]
    /\ zip \in [Task -> Content]
    /\ onDisk \in SUBSET Task
    /\ sweeps \in [Task -> [SweepKind -> Nat]]
    /\ touched \in SUBSET Task

Init ==
    /\ node = "ACTIVE"
    /\ gate = TRUE
    /\ run = [r \in Run |-> [pc |-> "unsent", attempt |-> 0, torn |-> FALSE]]
    /\ backup = [t \in Task |-> "none"]
    /\ born = [t \in Task |-> 0]
    /\ point = [t \in Task |-> [s \in Storage |-> "none"]]
    /\ copy = [t \in Task |-> [s \in Storage |-> "none"]]
    /\ up = [r \in Run |-> [s \in Storage |-> [st |-> "idle", tries |-> 0]]]
    /\ chord = [r \in Run |-> "none"]
    /\ victims = [r \in Run |-> {}]
    /\ zip = [t \in Task |-> "none"]
    /\ onDisk = {}
    /\ sweeps = [t \in Task |-> [k \in SweepKind |-> 0]]
    /\ touched = {}

-----------------------------------------------------------------------------
(* Starting a backup.                                                      *)

\* take_snapshot requires an ACTIVE node; run_scheduled_backup only looks at the
\* schedule.  Each message gets a fresh task id.
Send(r) ==
    /\ ~ Sent(TaskOf[r])
    /\ TaskOf[r] \in Scheduled => gate
    /\ TaskOf[r] \notin Scheduled => node = "ACTIVE"
    /\ run' = [run EXCEPT ![r].pc = "queued"]
    /\ UNCHANGED <<node, gate, backup, born, point, copy, up, chord, victims,
                   zip, onDisk, sweeps, touched>>

GateOpen == gate /\ node = "ACTIVE"

\* The task finds its node, connection, account or schedule paused or being deleted:
\* it returns, and leaves the backup row of an earlier attempt as it is.
TurnAway(r) ==
    /\ run[r].pc \in {"queued", "waiting"}
    /\ ~ GateOpen
    /\ run' = [run EXCEPT ![r].pc = "done"]
    /\ UNCHANGED <<node, gate, backup, born, point, copy, up, chord, victims,
                   zip, onDisk, sweeps, touched>>

\* Mutants: one status is missing from ACTIVE_STATUSES.
NoUploading(t) == \E u \in Task \ {t} : Active(u) /\ backup[u] # "UPLOAD_IN_PROGRESS"
NoDownloading(t) == \E u \in Task \ {t} : Active(u) /\ backup[u] # "DOWNLOAD_IN_PROGRESS"

\* The guard's query: a backup of the node, of another task, in an active status.
OtherActive(t) == \E u \in Task \ {t} : Active(u)

\* backup_initiate under the node's row lock: another task's backup is active.
SkipDuplicate(r) ==
    /\ run[r].pc \in {"queued", "waiting"}
    /\ GateOpen
    /\ OtherActive(TaskOf[r])
    /\ run' = [run EXCEPT ![r].pc = "skipped"]
    /\ UNCHANGED <<node, gate, backup, born, point, copy, up, chord, victims,
                   zip, onDisk, sweeps, touched>>

NextBorn == 1 + Cardinality({u \in Task : backup[u] # "none"})

\* backup_initiate under the node's row lock: create the row, or take over the row
\* this task id already has.
Initiate(r) ==
    LET t == TaskOf[r] IN
    /\ run[r].pc \in {"queued", "waiting"}
    /\ GateOpen
    /\ ~ OtherActive(t)
    /\ run' = [run EXCEPT ![r].pc = "validating"]
    /\ backup' = [backup EXCEPT ![t] = "IN_PROGRESS"]
    /\ born' = IF backup[t] = "none" THEN [born EXCEPT ![t] = NextBorn] ELSE born
    /\ UNCHANGED <<node, gate, point, copy, up, chord, victims, zip, onDisk,
                   sweeps, touched>>

\* backup_initiate after the lock: destinations that validate are attached (a row that
\* exists keeps its status), and the node row loaded at the gate, then ACTIVE, is saved.
AttachStorage(r) ==
    LET t == TaskOf[r] IN
    /\ run[r].pc = "validating"
    /\ \E V \in SUBSET Storage :
         point' = [point EXCEPT ![t] =
                     [s \in Storage |-> IF s \in V /\ @[s] = "none"
                                        THEN "UPLOAD_READY" ELSE @[s]]]
    /\ run' = [run EXCEPT ![r].pc = "connecting"]
    /\ node' = "ACTIVE"
    /\ UNCHANGED <<gate, backup, born, copy, up, chord, victims, zip, onDisk,
                   sweeps, touched>>

\* connection.validate() succeeded; create_snapshot starts the dump.
BeginDump(r) ==
    /\ run[r].pc = "connecting"
    /\ run' = [run EXCEPT ![r] = [@ EXCEPT !.pc = "dumping", !.torn = FALSE]]
    /\ backup' = [backup EXCEPT ![TaskOf[r]] = "DOWNLOAD_IN_PROGRESS"]
    /\ UNCHANGED <<node, gate, born, point, copy, up, chord, victims, zip, onDisk,
                   sweeps, touched>>

\* delete_from_disk.apply_async: for the directory alone, or n times for directory and
\* archive ("both" removes one after the other).
QueueDir(t) == [sweeps EXCEPT ![t]["dir"] = @ + 1]
QueueBoth(t, n) == [sweeps EXCEPT ![t] = [k \in SweepKind |-> @[k] + n]]

\* Mutant: one retry too many.
OneRetryMore(r) ==
    /\ run' = [run EXCEPT ![r] = [@ EXCEPT !.pc = "waiting", !.attempt = run[r].attempt + 1]]
    /\ backup' = [backup EXCEPT ![TaskOf[r]] = "RETRYING"]

\* backup_retrying_reset then self.retry(), or backup_max_retries_reached when the
\* retries are used up.
RetryOrGiveUp(r) ==
    IF run[r].attempt < MaxRetries
    THEN /\ run' = [run EXCEPT ![r] = [@ EXCEPT !.pc = "waiting", !.attempt = run[r].attempt + 1]]
         /\ backup' = [backup EXCEPT ![TaskOf[r]] = "RETRYING"]
    ELSE /\ run' = [run EXCEPT ![r].pc = "done"]
         /\ backup' = [backup EXCEPT ![TaskOf[r]] = "MAX_RETRY_FAILED"]

\* Storage validation, connection validation or the dump fails; a failed dump asks for
\* its files to be deleted.
FailAttempt(r) ==
    /\ run[r].pc \in Working
    /\ RetryOrGiveUp(r)
    /\ sweeps' = IF run[r].pc = "dumping" THEN QueueBoth(TaskOf[r], 1) ELSE sweeps
    /\ UNCHANGED <<node, gate, born, point, copy, up, chord, victims, zip, onDisk,
                   touched>>

\* The dump command or the task runs out of time: backup_timeout_reset.  The handler asks
\* for the files to be deleted once backup_initiate has returned, as a dump that timed out
\* has done already.
TimeOut(r) ==
    /\ \/ run[r].pc \in Working
       \/ run[r].pc = "dispatched" /\ "latelimit" \in Env
    /\ run' = [run EXCEPT ![r].pc = "done"]
    /\ node' = "ACTIVE"
    /\ backup' = [backup EXCEPT ![TaskOf[r]] = "TIMEOUT"]
    /\ sweeps' = QueueBoth(TaskOf[r], CASE run[r].pc = "validating" -> 0
                                         [] run[r].pc = "dumping" -> 2
                                         [] OTHER -> 1)
    /\ UNCHANGED <<gate, born, point, copy, up, chord, victims, zip, onDisk, touched>>

-----------------------------------------------------------------------------
(* Handing the archive to the uploads.                                     *)

Ready(t) == {s \in Storage : point[t][s] = "UPLOAD_READY"}

\* The archive is built from whatever the working directory then holds.
BuildArchive(r) ==
    /\ zip' = [zip EXCEPT ![TaskOf[r]] = IF run[r].torn THEN "torn" ELSE "whole"]
    /\ onDisk' = onDisk \cup {TaskOf[r]}
    /\ sweeps' = QueueDir(TaskOf[r])

\* Mutant: the backup is complete once it is dumped.
CompleteAfterDump(t) == IF Ready(t) = {} THEN "DOWNLOAD_COMPLETE" ELSE "COMPLETE"

StatusAfterDump(t) == IF Ready(t) = {} THEN "DOWNLOAD_COMPLETE" ELSE "UPLOAD_IN_PROGRESS"

\* The dump succeeded: one upload per destination still ready, with finalize_backup as
\* the chord's callback; finalize_backup at once when no destination is ready.
Dispatch(r) ==
    LET t == TaskOf[r] IN
    /\ run[r].pc = "dumping"
    /\ BuildArchive(r)
    /\ run' = [run EXCEPT ![r].pc = "dispatched"]
    /\ backup' = [backup EXCEPT ![t] = StatusAfterDump(t)]
    /\ up' = [up EXCEPT ![r] = [s \in Storage |-> IF s \in Ready(t)
                                                  THEN [@[s] EXCEPT !.st = "queued"]
                                                  ELSE @[s]]]
    /\ chord' = [chord EXCEPT ![r] = IF Ready(t) = {} THEN "queued" ELSE "open"]
    /\ UNCHANGED <<node, gate, born, point, copy, victims, touched>>

\* The dump succeeded and the broker refuses the messages.  A database reports a failed
\* attempt; the other kinds of node log the exception and carry on.
DispatchRefused(r) ==
    LET t == TaskOf[r] IN
    /\ "broker" \in Env
    /\ run[r].pc = "dumping"
    /\ BuildArchive(r)
    /\ IF Swallow
       THEN /\ run' = [run EXCEPT ![r].pc = "dispatched"]
            /\ backup' = [backup EXCEPT ![t] = StatusAfterDump(t)]
       ELSE RetryOrGiveUp(r)
    /\ UNCHANGED <<node, gate, born, point, copy, up, chord, victims, touched>>

\* The task's last statements: node.status = ACTIVE; node.save().
SaveNode(r) ==
    /\ run[r].pc = "dispatched"
    /\ node' = "ACTIVE"
    /\ run' = [run EXCEPT ![r].pc = "done"]
    /\ UNCHANGED <<gate, backup, born, point, copy, up, chord, victims, zip, onDisk,
                   sweeps, touched>>

-----------------------------------------------------------------------------
(* storage_upload, and Celery's chord counter.                             *)

\* The chord of a run whose uploads are in states u: the callback is sent when every
\* upload has reported, and never when one of them failed or was revoked.
ChordAfter(u) ==
    IF \E s \in Storage : u[s].st \in UploadLive \cup {"lost"} THEN "open"
    ELSE IF \E s \in Storage : u[s].st = "broken" THEN "lost" ELSE "queued"

SetUpload(r, s, st) ==
    /\ up' = [up EXCEPT ![r][s].st = st]
    /\ chord' = [chord EXCEPT ![r] = ChordAfter(up'[r])]

SetPoint(r, s, status) == point' = [point EXCEPT ![TaskOf[r]][s] = status]

\* An upload task starts, or starts again, and opens the archive.
PickUp(r, s) ==
    /\ up[r][s].st \in {"queued", "waiting"}
    /\ IF TaskOf[r] \in onDisk
       THEN SetPoint(r, s, "UPLOAD_IN_PROGRESS") /\ SetUpload(r, s, "sending")
       ELSE SetPoint(r, s, "UPLOAD_FAILED") /\ SetUpload(r, s, "ended")
    /\ UNCHANGED <<node, gate, run, backup, born, copy, victims, zip, onDisk,
                   sweeps, touched>>

\* Mutant: the object is stored and the row left as it was.
StoreOnly(r, s) ==
    /\ up[r][s].st = "sending"
    /\ SetUpload(r, s, "ended")
    /\ copy' = [copy EXCEPT ![TaskOf[r]][s] = zip[TaskOf[r]]]
    /\ UNCHANGED <<node, gate, run, backup, born, point, victims, zip, onDisk, sweeps,
                   touched>>

Store(r, s) ==
    /\ up[r][s].st = "sending"
    /\ SetPoint(r, s, "UPLOAD_COMPLETE")
    /\ SetUpload(r, s, "ended")
    /\ copy' = [copy EXCEPT ![TaskOf[r]][s] = zip[TaskOf[r]]]
    /\ UNCHANGED <<node, gate, run, backup, born, victims, zip, onDisk, sweeps, touched>>

\* Mutant: the handler raises again.
RejectAndRaise(r, s) ==
    /\ up[r][s].st = "sending"
    /\ SetPoint(r, s, "UPLOAD_FAILED")
    /\ SetUpload(r, s, "broken")
    /\ UNCHANGED <<node, gate, run, backup, born, copy, victims, zip, onDisk, sweeps,
                   touched>>

\* Quota, bucket, permission and time-limit errors end the upload at once.
Reject(r, s) ==
    /\ up[r][s].st = "sending"
    /\ SetPoint(r, s, "UPLOAD_FAILED")
    /\ SetUpload(r, s, "ended")
    /\ UNCHANGED <<node, gate, run, backup, born, copy, victims, zip, onDisk, sweeps,
                   touched>>

\* Any other error: UPLOAD_RETRY and self.retry(), or UPLOAD_FAILED after the last one.
RetryUpload(r, s) ==
    /\ up[r][s].st = "sending"
    /\ IF up[r][s].tries < MaxUploadRetries
       THEN /\ SetPoint(r, s, "UPLOAD_RETRY")
            /\ up' = [up EXCEPT ![r][s] = [st |-> "waiting", tries |-> @.tries + 1]]
            /\ UNCHANGED chord
       ELSE SetPoint(r, s, "UPLOAD_FAILED") /\ SetUpload(r, s, "ended")
    /\ UNCHANGED <<node, gate, run, backup, born, copy, victims, zip, onDisk, sweeps,
                   touched>>

\* The task raises before its try block (rows or run log unavailable), or is killed by
\* its hard time limit, which equals the soft one.
BreakUpload(r, s) ==
    /\ "break" \in Env
    /\ up[r][s].st \in {"queued", "waiting", "sending"}
    /\ SetUpload(r, s, "broken")
    /\ UNCHANGED <<node, gate, run, backup, born, point, copy, victims, zip, onDisk,
                   sweeps, touched>>

-----------------------------------------------------------------------------
(* finalize_backup.                                                        *)

CompleteScheduled(b) == {t \in Scheduled : b[t] = "COMPLETE"}

\* Mutants: completed[:-keep_last + 1] and completed[:-keep_last - 1].
ExcessAndOne(b) ==
    {u \in CompleteScheduled(b) :
        Cardinality({t \in CompleteScheduled(b) : born[t] > born[u]}) + 1 >= KeepLast}
ExcessButOne(b) ==
    {u \in CompleteScheduled(b) :
        Cardinality({t \in CompleteScheduled(b) : born[t] > born[u]}) > KeepLast}

\* completed[:-keep_last] of the schedule's COMPLETE backups in creation order.
Excess(b) ==
    {u \in CompleteScheduled(b) :
        Cardinality({t \in CompleteScheduled(b) : born[t] > born[u]}) >= KeepLast}

\* The backup is settled from the number of uploaded copies.  The first completion of a
\* scheduled backup also selects the backups to prune.
Finalize(r) ==
    LET t == TaskOf[r]
        fresh == Uploaded(t) # {} /\ backup[t] # "COMPLETE"
    IN
    /\ chord[r] = "queued"
    /\ backup' = CASE Uploaded(t) # {} -> [backup EXCEPT ![t] = "COMPLETE"]
                   [] Uploaded(t) = {} /\ backup[t] = "COMPLETE" -> backup
                   [] OTHER -> [backup EXCEPT ![t] = "UPLOAD_FAILED"]
    /\ victims' = [victims EXCEPT ![r] = IF fresh /\ t \in Scheduled /\ KeepLast > 0
                                         THEN Excess(backup') ELSE {}]
    /\ chord' = [chord EXCEPT ![r] = "pruning"]
    /\ UNCHANGED <<node, gate, run, born, point, copy, up, zip, onDisk, sweeps, touched>>

\* soft_delete: each stored copy is deleted, or its deletion fails (those in F); the
\* backup's row is DELETE_COMPLETED in both cases.  At Google Drive a deletion that succeeds
\* returns before the row of the copy is updated; one that finds nothing updates it.  A
\* refusal that a backend takes for success is DELETE_FAILED here, as nothing modelled tells the two apart.
SoftDelete(t, F) ==
    /\ point' = [point EXCEPT ![t] =
                   [s \in Storage |->
                      CASE copy[t][s] # "none" /\ s \in F -> "DELETE_FAILED"
                        [] copy[t][s] # "none" /\ s \notin F \cup Drive -> "DELETE_COMPLETED"
                        [] copy[t][s] = "none" /\ s \in Drive /\ @[s] = "UPLOAD_COMPLETE"
                              -> "DELETE_COMPLETED"
                        [] OTHER -> @[s]]]
    /\ copy' = [copy EXCEPT ![t] = [s \in Storage |-> IF s \in F THEN @[s] ELSE "none"]]
    /\ backup' = [backup EXCEPT ![t] = "DELETE_COMPLETED"]

\* The oldest backup still to prune is deleted.
PruneOne(r) ==
    /\ chord[r] = "pruning"
    /\ \E u \in victims[r] :
         /\ \A v \in victims[r] : born[u] <= born[v]
         /\ \E F \in SUBSET Storage : SoftDelete(u, F)
         /\ victims' = [victims EXCEPT ![r] = @ \ {u}]
    /\ UNCHANGED <<node, gate, run, born, up, chord, zip, onDisk, sweeps, touched>>

\* Mutant: the local files are forgotten.
FinishUnswept(r) ==
    /\ chord[r] = "pruning"
    /\ victims[r] = {} \/ "exception" \in Env
    /\ chord' = [chord EXCEPT ![r] = "done"]
    /\ victims' = [victims EXCEPT ![r] = {}]
    /\ UNCHANGED <<node, gate, run, backup, born, point, copy, up, zip, onDisk, sweeps,
                   touched>>

\* The finally clause, with nothing left to prune or after an exception on the way.
FinishFinalize(r) ==
    /\ chord[r] = "pruning"
    /\ victims[r] = {} \/ "exception" \in Env
    /\ chord' = [chord EXCEPT ![r] = "done"]
    /\ victims' = [victims EXCEPT ![r] = {}]
    /\ sweeps' = QueueBoth(TaskOf[r], 1)
    /\ UNCHANGED <<node, gate, run, backup, born, point, copy, up, zip, onDisk, touched>>

-----------------------------------------------------------------------------
(* delete_from_disk.                                                       *)

\* The working directory and the archive are named after the backup, not after the
\* attempt: a sweep takes whatever carries the name when it runs.
Sweep(t, k) ==
    /\ sweeps[t][k] > 0
    /\ sweeps' = [sweeps EXCEPT ![t][k] = @ - 1]
    /\ onDisk' = IF k = "zip" THEN onDisk \ {t} ELSE onDisk
    /\ run' = [r \in Run |->
                 IF k = "dir" /\ TaskOf[r] = t /\ run[r].pc = "dumping"
                 THEN [run[r] EXCEPT !.torn = TRUE] ELSE run[r]]
    /\ UNCHANGED <<node, gate, backup, born, point, copy, up, chord, victims, zip, touched>>

-----------------------------------------------------------------------------
(* Operators.                                                              *)

SetNode(status) ==
    /\ "pause" \in Env
    /\ node # status
    /\ node' = status
    /\ UNCHANGED <<gate, run, backup, born, point, copy, up, chord, victims, zip, onDisk,
                   sweeps, touched>>

\* The schedule, the connection or the account is paused, deleted or made active again.
MoveGate ==
    /\ "gate" \in Env
    /\ gate' = ~ gate
    /\ UNCHANGED <<node, run, backup, born, point, copy, up, chord, victims, zip, onDisk,
                   sweeps, touched>>

\* What a revocation can reach: the runs of the task id, and the uploads that have
\* recorded theirs, which a queued one has not.  Revocation is a broadcast to the workers
\* then alive, so any part of it may come too late ("late").
Revocable(t) == {r \in RunsOf(t) : run[r].pc \in Working \cup {"queued", "waiting", "dispatched"}}
RevocableUploads(t) ==
    {u \in RunsOf(t) \X Storage : up[u[1]][u[2]].st \in {"sending", "waiting"}}
Reached(S) == IF "late" \in Env THEN SUBSET S ELSE {S}

Cancel(t) ==
    /\ "cancel" \in Env
    /\ backup[t] # "none"
    /\ backup' = [backup EXCEPT ![t] = "CANCELLED"]
    /\ point' = [point EXCEPT ![t] =
                   [s \in Storage |-> IF @[s] = "none" THEN "none" ELSE "CANCELLED"]]
    /\ \E K \in Reached(Revocable(t)) :
         run' = [r \in Run |-> IF r \in K THEN [run[r] EXCEPT !.pc = "done"] ELSE run[r]]
    /\ \E U \in Reached(RevocableUploads(t)) :
         up' = [r \in Run |-> [s \in Storage |->
                  IF <<r, s>> \in U THEN [up[r][s] EXCEPT !.st = "broken"] ELSE up[r][s]]]
    /\ chord' = [r \in Run |-> IF chord[r] = "open" THEN ChordAfter(up'[r]) ELSE chord[r]]
    /\ sweeps' = QueueBoth(t, 1)
    /\ node' = "ACTIVE"
    /\ touched' = touched \cup {t}
    /\ UNCHANGED <<gate, born, copy, victims, zip, onDisk>>

Destroy(t) ==
    /\ "destroy" \in Env
    /\ backup[t] # "none"
    /\ \E F \in SUBSET Storage : SoftDelete(t, F)
    /\ touched' = touched \cup {t}
    /\ UNCHANGED <<node, gate, run, born, up, chord, victims, zip, onDisk, sweeps>>

\* UtilBackup.retry: another message with the same task id, for scheduled backups only.
Resend(r) ==
    LET t == TaskOf[r] IN
    /\ "resend" \in Env
    /\ run[r].pc = "unsent"
    /\ t \in Scheduled
    /\ backup[t] # "none"
    /\ run' = [run EXCEPT ![r].pc = "queued"]
    /\ touched' = touched \cup {t}
    /\ UNCHANGED <<node, gate, backup, born, point, copy, up, chord, victims, zip, onDisk,
                   sweeps>>

-----------------------------------------------------------------------------
(* Worker processes die.  Messages were acknowledged when they were taken. *)

CrashRun(r) ==
    /\ "crash" \in Env
    /\ run[r].pc \in Working \cup {"dispatched"}
    /\ run' = [run EXCEPT ![r].pc = "done"]
    /\ UNCHANGED <<node, gate, backup, born, point, copy, up, chord, victims, zip, onDisk,
                   sweeps, touched>>

CrashUpload(r, s) ==
    /\ "crash" \in Env
    /\ up[r][s].st = "sending"
    /\ up' = [up EXCEPT ![r][s].st = "lost"]
    /\ UNCHANGED <<node, gate, run, backup, born, point, copy, chord, victims, zip, onDisk,
                   sweeps, touched>>

CrashFinalize(r) ==
    /\ "crash" \in Env
    /\ chord[r] = "pruning"
    /\ chord' = [chord EXCEPT ![r] = "lost"]
    /\ victims' = [victims EXCEPT ![r] = {}]
    /\ UNCHANGED <<node, gate, run, backup, born, point, copy, up, zip, onDisk, sweeps,
                   touched>>

-----------------------------------------------------------------------------

RunStep(r) ==
    \/ TurnAway(r) \/ SkipDuplicate(r) \/ Initiate(r) \/ AttachStorage(r) \/ BeginDump(r)
    \/ FailAttempt(r) \/ TimeOut(r) \/ Dispatch(r) \/ DispatchRefused(r) \/ SaveNode(r)

UploadStep(r, s) ==
    PickUp(r, s) \/ Store(r, s) \/ Reject(r, s) \/ RetryUpload(r, s) \/ BreakUpload(r, s)

FinalizeStep(r) == Finalize(r) \/ PruneOne(r) \/ FinishFinalize(r)

OperatorStep ==
    \/ \E status \in NodeStatus : SetNode(status)
    \/ MoveGate
    \/ \E t \in Task : Cancel(t) \/ Destroy(t)
    \/ \E r \in Run : Resend(r)

CrashStep ==
    \/ \E r \in Run : CrashRun(r) \/ CrashFinalize(r)
    \/ \E r \in Run, s \in Storage : CrashUpload(r, s)

Next ==
    \/ \E r \in Run : Send(r) \/ RunStep(r) \/ FinalizeStep(r)
    \/ \E r \in Run, s \in Storage : UploadStep(r, s)
    \/ \E t \in Task, k \in SweepKind : Sweep(t, k)
    \/ OperatorStep
    \/ CrashStep

Spec == Init /\ [][Next]_vars

\* Workers keep consuming their queues and every remote call ends; nobody has to start a
\* backup, and operators and faults owe nothing.
FairSpec ==
    /\ Spec
    /\ \A r \in Run : WF_vars(RunStep(r)) /\ WF_vars(FinalizeStep(r))
    /\ \A r \in Run, s \in Storage : WF_vars(UploadStep(r, s))
    /\ \A t \in Task, k \in SweepKind : WF_vars(Sweep(t, k))

-----------------------------------------------------------------------------
(* Properties.  An operator's cancel, delete or retry takes a backup out of *)
(* the guard's hands (see the violations in the README), so the promises    *)
(* about who may run are made for the untouched tasks.                      *)

Untouched == Task \ touched
AtWork(r) == run[r].pc \in Working \cup {"waiting"}
Dumping(t) == \E r \in RunsOf(t) : AtWork(r)

\* The duplicate guard of backup_initiate: at most one of the node's backups is in an
\* active status, however runs, retries, uploads and callbacks interleave.
OneActiveBackup ==
    \A t, u \in Untouched : Active(t) /\ Active(u) => t = u

\* What the guard is for: two tasks never dump the node at the same time, nor does one
\* dump while the other waits to retry its dump.
SingleFlight ==
    \A t, u \in Untouched : Dumping(t) /\ Dumping(u) => t = u

\* Why the guard works, although it looks at rows only and not at what is running: a run at
\* work has an active row; an untouched task has one run; a run that started its chord never
\* dumps again; uploads belong to a chord; and a backup that is complete, or about to be
\* pruned, started its chord.
WorkIsActive ==
    \A r \in Run : TaskOf[r] \in Untouched /\ AtWork(r) => Active(TaskOf[r])
OneRun ==
    \A r, q \in Run : /\ TaskOf[r] = TaskOf[q] /\ TaskOf[r] \in Untouched
                      /\ run[r].pc # "unsent" /\ run[q].pc # "unsent"
                  => r = q
ChordAfterWork == \A r \in Run : chord[r] # "none" => run[r].pc \in {"dispatched", "done"}
UploadIsChorded ==
    \A r \in Run, s \in Storage : up[r][s].st # "idle" => chord[r] # "none"
Chorded(t) == \E r \in RunsOf(t) : chord[r] # "none"
CompleteIsChorded == \A t \in Untouched : backup[t] = "COMPLETE" => Chorded(t)
VictimsAreChorded == \A r \in Run : \A t \in victims[r] \cap Untouched : Chorded(t)

GuardInv ==
    /\ OneActiveBackup
    /\ WorkIsActive
    /\ OneRun
    /\ ChordAfterWork
    /\ UploadIsChorded
    /\ CompleteIsChorded
    /\ VictimsAreChorded

\* A terminal row means that nothing works on the backup any more, so the guard, which
\* looks at rows only, may let the next task in.
SettledIsQuiet ==
    \A t \in Untouched :
        backup[t] \in TerminalStatus =>
            /\ ~ Dumping(t)
            /\ \A r \in RunsOf(t), s \in Storage : up[r][s].st \notin UploadLive
            /\ \A r \in RunsOf(t) : chord[r] \notin {"open", "queued"}

\* Without faults or operators, a row in an active status always has a message, a worker,
\* an upload or a callback that will move it: the node cannot wedge behind its guard.
ActiveHasWork ==
    \A t \in Task : Active(t) => InFlight(t)

\* finalize_backup: "At least one destination has the backup".  A backup shown as COMPLETE
\* has a copy on some destination, also while operators cancel, delete and retry it: the
\* tally, soft_delete and cancel never disagree, but for a copy deleted at Google Drive.
CompleteHasCopy ==
    \A t \in Task : backup[t] = "COMPLETE" =>
        \E s \in Storage : copy[t][s] # "none" \/ (s \in Drive /\ t \in touched)

\* UPLOAD_FAILED is said only of a backup of which no destination holds a copy.
UploadFailedMeansNothingStored ==
    \A t \in Untouched : backup[t] = "UPLOAD_FAILED" => \A s \in Storage : copy[t][s] = "none"

\* Whenever no finalize_backup is pruning, the schedule has at most keep_last backups.
RetentionApplied ==
    KeepLast > 0 /\ (\A r \in Run : victims[r] = {}) =>
        Cardinality(CompleteScheduled(backup)) <= KeepLast

\* backup_initiate: "refuse to start a second backup for the same node while one is still
\* in flight", hence only then.  A backup that was waiting to retry when the node was paused
\* stays active with nothing in flight.
GuardRefusesOnlyInFlight ==
    [][\A r \in Run : run[r].pc # "skipped" /\ run'[r].pc = "skipped" =>
           \E t \in Task \ {TaskOf[r]} : Active(t) /\ InFlight(t)]_vars

\* README: "No silent partial backups".  A sweep queued by a failed attempt may take the
\* working directory of the next attempt, whose archive is uploaded as a complete backup.
NoSilentPartial ==
    \A t \in Untouched, s \in Storage : backup[t] = "COMPLETE" => copy[t][s] # "torn"

\* With no operator about, every started backup reaches a terminal status, so that the
\* guard lets the next one in.
BackupSettles == \A t \in Task : Active(t) ~> ~ Active(t)

\* Every archive is removed from local disk in the end.
DiskReclaimed == \A t \in Task : t \in onDisk ~> t \notin onDisk

\* A backup as the operator sees it.
Phase(t) ==
    CASE t \in touched -> "void"
      [] t \notin touched /\ backup[t] = "none" -> "idle"
      [] t \notin touched /\ Active(t) -> "running"
      [] t \notin touched /\ backup[t] = "COMPLETE" -> "stored"
      [] t \notin touched /\ backup[t] = "DELETE_COMPLETED" -> "pruned"
      [] OTHER -> "failed"

\* What an operator may rely on, without the machinery.
Promise == INSTANCE BackupPromise WITH
    phase <- [t \in Task |-> Phase(t)],
    age <- born

\* The pipeline implements the promise: backups run one at a time, settle once, and only
\* retention, with enough newer backups, removes a stored one.
ImplementsPromise == Promise!Spec
=============================================================================
