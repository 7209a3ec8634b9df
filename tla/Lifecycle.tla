------------------------------- MODULE Lifecycle -------------------------------
(***************************************************************************)
(* A node, its schedule and the schedule's beat entry, while operators     *)
(* pause, resume, edit and delete them and backups of the node run.        *)
(*                                                                         *)
(* Every request and every backup task loads a row, and later writes all   *)
(* of its columns back (Django's save): what another one wrote meanwhile   *)
(* is overwritten, and a row deleted meanwhile is inserted again.  A       *)
(* schedule and its beat entry are two rows, written one after the other.  *)
(* A node is deleted by a task, which its request sends after it has       *)
(* marked the node: backup by backup, then the schedules, then the row,    *)
(* which cascades to all rows that refer to it.                            *)
(*                                                                         *)
(* Of a backup only what deletion meets is kept: its row and its copy (one *)
(* storage).  FileBackup has the rest.                                     *)
(***************************************************************************)
EXTENDS Naturals, FiniteSets

CONSTANTS
    Request,   \* HTTP requests of operators
    Op,        \* what they may ask for
    Run,       \* backup tasks of the node
    MaxTries,  \* retries of the deletion task (max_retries)
    Env        \* which faults the behaviours include

NodeOp == {"pause", "resume", "delete", "edit"}
ScheduleOp == {"create", "halt", "continue", "change", "destroy"}
EnvKinds == {"network",  \* a dump fails, a copy is not deleted, the deletion task breaks
             "limit",    \* the soft time limit strikes in a dump
             "cancel",   \* an operator cancels a backup
             "broker"}   \* the broker refuses the deletion's message

ASSUME LifecycleAssumption ==
    /\ IsFiniteSet(Request)
    /\ IsFiniteSet(Run)
    /\ Op \subseteq NodeOp \cup ScheduleOp
    /\ MaxTries \in Nat
    /\ Env \subseteq EnvKinds

VARIABLES
    node,    \* status of the node's row, "gone" once deleted
    whole,   \* the row still has its website or database row
    sched,   \* status of the schedule's row, "none" before it exists
    link,    \* celery_periodic_task: the row refers to its beat entry
    beat,    \* the beat entry (PeriodicTask): enabled, disabled or none
    op,      \* what each request asks for
    at,      \* how far it is
    seen,    \* the status in the row it holds
    seenLink,\* the reference in the row it holds
    purge,   \* the deletion task each request sent
    doomed,  \* the backups that task has listed and not yet deleted
    tries,   \* its retries
    pc,      \* each backup task
    row,     \* the row of its backup
    upload,  \* its upload
    copies,  \* backups with a copy at the storage
    asked,   \* history: the status of the node last asked for
    raced,   \* history: others held the node when that was written, or a cancel reset it since
    crossed, \* history: two writers of the schedule overlapped, or one of them failed
    undone,  \* history: the mark of a deletion was overwritten
    late,    \* history: backups in flight while the node was being deleted
    refused  \* history: backups whose copy was not deleted

vars == <<node, whole, sched, link, beat, op, at, seen, seenLink, purge, doomed, tries, pc, row,
          upload, copies, asked, raced, crossed, undone, late, refused>>
schedule == <<sched, link, beat>>
request == <<op, at, seen, seenLink>>
deletion == <<purge, doomed, tries>>
backup == <<pc, row, upload, copies>>
nodeHistory == <<asked, raced, undone>>
copyHistory == <<late, refused>>

-----------------------------------------------------------------------------

NodeStatus == {"ACTIVE", "PAUSED", "DELETE_REQUESTED"}
Holding == {"loaded", "dumping", "sent"}
Removing == {"backups", "rows", "node"}

TypeOK ==
    /\ node \in NodeStatus \cup {"gone"}
    /\ whole \in BOOLEAN
    /\ sched \in {"ACTIVE", "PAUSED", "none", "gone"}
    /\ link \in BOOLEAN
    /\ beat \in {"on", "off", "none"}
    /\ op \in [Request -> Op \cup {"none"}]
    /\ at \in [Request -> {"idle", "loaded", "saved", "fetched", "created", "unlinked", "done"}]
    /\ seen \in [Request -> NodeStatus]
    /\ seenLink \in [Request -> BOOLEAN]
    /\ purge \in [Request -> Removing \cup {"none", "queued", "done", "dead"}]
    /\ doomed \in [Request -> SUBSET Run]
    /\ tries \in [Request -> 0 .. MaxTries]
    /\ pc \in [Run -> Holding \cup {"idle", "queued", "over"}]
    /\ row \in [Run -> {"none", "active", "settled", "deleted", "gone"}]
    /\ upload \in [Run -> {"none", "queued", "running", "stored", "over"}]
    /\ copies \subseteq Run
    /\ asked \in NodeStatus
    /\ {raced, crossed, undone} \subseteq BOOLEAN
    /\ late \subseteq Run
    /\ refused \subseteq Run

\* A node in use, with a schedule or without.
Init ==
    /\ node = "ACTIVE"
    /\ whole = TRUE
    /\ \/ sched = "ACTIVE" /\ link = TRUE /\ beat = "on"
       \/ sched = "none" /\ link = FALSE /\ beat = "none"
    /\ op = [q \in Request |-> "none"]
    /\ at = [q \in Request |-> "idle"]
    /\ seen = [q \in Request |-> "ACTIVE"]
    /\ seenLink = [q \in Request |-> FALSE]
    /\ purge = [q \in Request |-> "none"]
    /\ doomed = [q \in Request |-> {}]
    /\ tries = [q \in Request |-> 0]
    /\ pc = [r \in Run |-> "idle"]
    /\ row = [r \in Run |-> "none"]
    /\ upload = [r \in Run |-> "none"]
    /\ copies = {}
    /\ asked = "ACTIVE"
    /\ raced = FALSE
    /\ crossed = FALSE
    /\ undone = FALSE
    /\ late = {}
    /\ refused = {}

Move(q, s) == at' = [at EXCEPT ![q] = s]
Advance(r, s) == pc' = [pc EXCEPT ![r] = s]

\* save(): an update of all columns or, when the row is gone, an insert without its sub-row.
WriteNode(s) ==
    /\ node' = s
    /\ whole' = (whole /\ node # "gone")
    /\ undone' = (undone \/ (asked = "DELETE_REQUESTED" /\ s # "DELETE_REQUESTED"))

\* A write that no request asked for.
Overwrite(s) ==
    /\ WriteNode(s)
    /\ UNCHANGED asked

-----------------------------------------------------------------------------
(* Requests on the node.                                                   *)

NodeHolders == {q \in Request : at[q] = "loaded" /\ op[q] \in NodeOp}
RunHolders == {r \in Run : pc[r] \in Holding}
Purging == {q \in Request : purge[q] \in Removing}

LoadNode(q, o) ==
    /\ at[q] = "idle"
    /\ o \in Op \cap NodeOp
    /\ node # "gone"
    /\ Move(q, "loaded")
    /\ op' = [op EXCEPT ![q] = o]
    /\ seen' = [seen EXCEPT ![q] = node]
    /\ UNCHANGED <<node, whole, schedule, seenLink, deletion, backup, nodeHistory, crossed,
                   copyHistory>>

StatusAsked(q) ==
    CASE op[q] = "pause" -> "PAUSED"
      [] op[q] = "resume" -> "ACTIVE"
      [] op[q] = "delete" -> "DELETE_REQUESTED"
      [] op[q] = "edit" -> seen[q]

\* An edit writes the status it has loaded; a deletion then sends its task.
SaveNode(q) ==
    /\ at[q] = "loaded"
    /\ op[q] \in NodeOp
    /\ Move(q, IF op[q] = "delete" THEN "saved" ELSE "done")
    /\ WriteNode(StatusAsked(q))
    /\ IF op[q] = "edit" THEN UNCHANGED <<asked, raced>>
       ELSE /\ asked' = StatusAsked(q)
            /\ raced' = (NodeHolders # {q} \/ RunHolders # {} \/ Purging # {})
    /\ UNCHANGED <<schedule, op, seen, seenLink, deletion, backup, crossed, copyHistory>>

SendDelete(q) ==
    /\ at[q] = "saved"
    /\ op[q] = "delete"
    /\ Move(q, "done")
    /\ \/ purge' = [purge EXCEPT ![q] = "queued"]
       \/ "broker" \in Env /\ UNCHANGED purge
    /\ UNCHANGED <<node, whole, schedule, op, seen, seenLink, doomed, tries, backup,
                   nodeHistory, crossed, copyHistory>>

-----------------------------------------------------------------------------
(* Requests on the schedule (CoreScheduleView).                            *)

ScheduleHolders == {q \in Request : op[q] \in ScheduleOp /\ at[q] \notin {"idle", "done"}}

\* Nothing but the request itself and the schedule changes.
OnSchedule(q, s) ==
    /\ Move(q, s)
    /\ UNCHANGED <<node, whole, op, seenLink, deletion, backup, nodeHistory, copyHistory>>

\* An exception: the request answers with an error and does no more.
Break(q) ==
    /\ OnSchedule(q, "done")
    /\ crossed' = TRUE
    /\ UNCHANGED <<seen, schedule>>

\* get_object; creating starts with the row's insert instead.
LoadSchedule(q, o) ==
    /\ at[q] = "idle"
    /\ o \in Op \cap ScheduleOp
    /\ node # "gone"
    /\ op' = [op EXCEPT ![q] = o]
    /\ crossed' = (crossed \/ ScheduleHolders # {} \/ Purging # {})
    /\ \/ /\ o = "create" /\ sched = "none"
          /\ Move(q, "saved")
          /\ \E s \in {"ACTIVE", "PAUSED"} : sched' = s /\ seen' = [seen EXCEPT ![q] = s]
          /\ seenLink' = [seenLink EXCEPT ![q] = FALSE]
       \/ /\ o # "create" /\ sched \in {"ACTIVE", "PAUSED"}
          /\ Move(q, "loaded")
          /\ seen' = [seen EXCEPT ![q] = sched]
          /\ seenLink' = [seenLink EXCEPT ![q] = link]
          /\ UNCHANGED sched
    /\ UNCHANGED <<node, whole, link, beat, deletion, backup, nodeHistory, copyHistory>>

StatusSaved(q) ==
    CASE op[q] = "halt" -> "PAUSED"
      [] op[q] = "continue" -> "ACTIVE"
      [] OTHER -> seen[q]

\* All columns: status and reference.  The database refuses a reference to a node or a beat
\* entry that is gone.
SaveSchedule(q) ==
    /\ at[q] = "loaded"
    /\ op[q] \in {"halt", "continue", "change"}
    /\ IF node = "gone" \/ (seenLink[q] /\ beat = "none")
       THEN Break(q)
       ELSE /\ OnSchedule(q, "saved")
            /\ sched' = StatusSaved(q)
            /\ seen' = [seen EXCEPT ![q] = StatusSaved(q)]
            /\ link' = seenLink[q]
            /\ UNCHANGED <<beat, crossed>>

BeatFor(q) == IF seen[q] = "ACTIVE" THEN "on" ELSE "off"

\* schedule_update: with a reference the beat entry is fetched, changed and saved ...
FetchBeat(q) ==
    /\ at[q] = "saved"
    /\ op[q] \in ScheduleOp
    /\ seenLink[q]
    /\ IF beat = "none" THEN Break(q)
       ELSE OnSchedule(q, "fetched") /\ UNCHANGED <<seen, schedule, crossed>>

\* Mutant: enabled is left as it is.
UpdateBeatKeeping(q) ==
    /\ at[q] = "fetched"
    /\ OnSchedule(q, "done")
    /\ UNCHANGED <<seen, schedule, crossed>>

UpdateBeat(q) ==
    /\ at[q] = "fetched"
    /\ OnSchedule(q, "done")
    /\ beat' = BeatFor(q)
    /\ UNCHANGED <<seen, sched, link, crossed>>

\* ... without one it is created (schedule_create); its name is unique.
CreateBeat(q) ==
    /\ at[q] = "saved"
    /\ op[q] \in ScheduleOp
    /\ ~ seenLink[q]
    /\ IF beat # "none" THEN Break(q)
       ELSE /\ OnSchedule(q, "created")
            /\ beat' = BeatFor(q)
            /\ UNCHANGED <<seen, sched, link, crossed>>

\* save(update_fields): fails when the row is gone.
LinkBeat(q) ==
    /\ at[q] = "created"
    /\ IF sched = "gone" THEN Break(q)
       ELSE /\ OnSchedule(q, "done")
            /\ link' = (beat # "none")
            /\ UNCHANGED <<seen, sched, beat, crossed>>

\* destroy: refused while backups refer to the schedule; else the beat entry, then the row.
DestroyBeat(q) ==
    /\ at[q] = "loaded"
    /\ op[q] = "destroy"
    /\ IF \E r \in Run : row[r] \notin {"none", "gone"}
       THEN OnSchedule(q, "done") /\ UNCHANGED <<seen, schedule, crossed>>
       ELSE IF seenLink[q] /\ beat = "none" THEN Break(q)
       ELSE /\ OnSchedule(q, "unlinked")
            /\ beat' = IF seenLink[q] THEN "none" ELSE beat
            /\ link' = (link /\ ~ seenLink[q])
            /\ UNCHANGED <<seen, sched, crossed>>

DestroyRow(q) ==
    /\ at[q] = "unlinked"
    /\ OnSchedule(q, "done")
    /\ sched' = "gone"
    /\ link' = FALSE
    /\ UNCHANGED <<seen, beat, crossed>>

-----------------------------------------------------------------------------
(* The deletion of the node (node_delete_requested).                       *)

SetPurge(q, s) == purge' = [purge EXCEPT ![q] = s]

InFlight == {r \in Run : pc[r] \in Holding \/ upload[r] \in {"queued", "running", "stored"}}

\* Mutant: nothing is soft-deleted.
PurgeStartEmpty(q) ==
    /\ purge[q] = "queued"
    /\ IF node = "DELETE_REQUESTED"
       THEN /\ SetPurge(q, IF whole THEN "backups" ELSE "node")
            /\ late' = late \cup InFlight
            /\ crossed' = (crossed \/ ScheduleHolders # {} \/ ~ whole)
       ELSE SetPurge(q, "done") /\ UNCHANGED <<late, crossed>>
    /\ UNCHANGED <<node, whole, schedule, request, doomed, tries, backup, nodeHistory, refused>>

\* Only a node that is still marked is deleted; its backups are listed once.
PurgeStart(q) ==
    /\ purge[q] = "queued"
    /\ IF node = "DELETE_REQUESTED"
       THEN /\ SetPurge(q, IF whole THEN "backups" ELSE "node")
            /\ doomed' = [doomed EXCEPT ![q] =
                              IF whole THEN {r \in Run : row[r] \in {"active", "settled"}} ELSE {}]
            /\ late' = late \cup InFlight
            /\ crossed' = (crossed \/ ScheduleHolders # {} \/ ~ whole)
       ELSE SetPurge(q, "done") /\ UNCHANGED <<doomed, late, crossed>>
    /\ UNCHANGED <<node, whole, schedule, request, tries, backup, nodeHistory, refused>>

\* soft_delete marks the row deleted whether the copy went or not; an upload that has not
\* recorded its copy yet is not seen.
PurgeBackup(q, r) ==
    /\ purge[q] = "backups"
    /\ r \in doomed[q]
    /\ row[r] # "gone"
    /\ doomed' = [doomed EXCEPT ![q] = @ \ {r}]
    /\ row' = [row EXCEPT ![r] = "deleted"]
    /\ \/ copies' = copies \ {r} /\ UNCHANGED refused
       \/ "network" \in Env /\ r \in copies /\ refused' = refused \cup {r} /\ UNCHANGED copies
    /\ UNCHANGED <<node, whole, schedule, request, purge, tries, pc, upload, nodeHistory,
                   crossed, late>>

PurgeBeat(q) ==
    /\ purge[q] = "backups"
    /\ doomed[q] = {}
    /\ SetPurge(q, "rows")
    /\ IF sched \in {"ACTIVE", "PAUSED"} /\ link
       THEN beat' = "none" /\ link' = FALSE ELSE UNCHANGED <<beat, link>>
    /\ UNCHANGED <<node, whole, sched, request, doomed, tries, backup, nodeHistory, crossed,
                   copyHistory>>

DropSchedule ==
    /\ sched' = IF sched = "none" THEN "none" ELSE "gone"
    /\ link' = FALSE
    /\ UNCHANGED beat

PurgeRows(q) ==
    /\ purge[q] = "rows"
    /\ SetPurge(q, "node")
    /\ DropSchedule
    /\ UNCHANGED <<node, whole, request, doomed, tries, backup, nodeHistory, crossed,
                   copyHistory>>

\* node.delete(), in one transaction with its cascade.
PurgeNode(q) ==
    /\ purge[q] = "node"
    /\ SetPurge(q, "done")
    /\ node' = "gone"
    /\ whole' = FALSE
    /\ DropSchedule
    /\ row' = [r \in Run |-> IF row[r] = "none" THEN "none" ELSE "gone"]
    /\ UNCHANGED <<request, doomed, tries, pc, upload, copies, nodeHistory, crossed,
                   copyHistory>>

PurgeBroken(q) ==
    \/ "network" \in Env /\ purge[q] \in Removing
    \/ purge[q] = "backups" /\ \E r \in doomed[q] : row[r] = "gone"

\* Mutant: the task is not sent again.
PurgeFailOnce(q) ==
    /\ PurgeBroken(q)
    /\ doomed' = [doomed EXCEPT ![q] = {}]
    /\ crossed' = TRUE
    /\ SetPurge(q, "done")
    /\ UNCHANGED <<node, whole, schedule, request, tries, backup, nodeHistory, copyHistory>>

\* Mutant: the retries are not limited.
PurgeFailForever(q) ==
    /\ PurgeBroken(q)
    /\ doomed' = [doomed EXCEPT ![q] = {}]
    /\ crossed' = TRUE
    /\ SetPurge(q, "queued")
    /\ tries' = [tries EXCEPT ![q] = @ + 1]
    /\ UNCHANGED <<node, whole, schedule, request, backup, nodeHistory, copyHistory>>

\* Whatever goes wrong, the task is tried again from the start.
PurgeFail(q) ==
    /\ PurgeBroken(q)
    /\ doomed' = [doomed EXCEPT ![q] = {}]
    /\ crossed' = TRUE
    /\ \/ tries[q] < MaxTries /\ SetPurge(q, "queued") /\ tries' = [tries EXCEPT ![q] = @ + 1]
       \/ tries[q] = MaxTries /\ SetPurge(q, "dead") /\ UNCHANGED tries
    /\ UNCHANGED <<node, whole, schedule, request, backup, nodeHistory, copyHistory>>

-----------------------------------------------------------------------------
(* Backups of the node.                                                    *)

\* run_scheduled_backup: beat fires, and the row must be active.
Fire(r) ==
    /\ pc[r] = "idle"
    /\ beat = "on"
    /\ sched = "ACTIVE"
    /\ Advance(r, "queued")
    /\ UNCHANGED <<node, whole, schedule, request, deletion, row, upload, copies, nodeHistory,
                   crossed, copyHistory>>

\* Mutant: the gate lets a paused node through.
GatePaused(r) ==
    /\ pc[r] = "queued"
    /\ IF node \in {"ACTIVE", "PAUSED"} /\ whole /\ sched = "ACTIVE"
          /\ \A o \in Run \ {r} : row[o] # "active"
       THEN /\ Advance(r, "loaded")
            /\ row' = [row EXCEPT ![r] = "active"]
            /\ late' = IF Purging # {} THEN late \cup {r} ELSE late
       ELSE Advance(r, "over") /\ UNCHANGED <<row, late>>
    /\ UNCHANGED <<node, whole, schedule, request, deletion, upload, copies, nodeHistory,
                   crossed, refused>>

\* The gate of the task and the guard of backup_initiate: an active node and schedule, and
\* no other backup in flight.  The node's row is in hand from here on.
Gate(r) ==
    /\ pc[r] = "queued"
    /\ IF node = "ACTIVE" /\ whole /\ sched = "ACTIVE" /\ \A o \in Run \ {r} : row[o] # "active"
       THEN /\ Advance(r, "loaded")
            /\ row' = [row EXCEPT ![r] = "active"]
            /\ late' = IF Purging # {} THEN late \cup {r} ELSE late
       ELSE Advance(r, "over") /\ UNCHANGED <<row, late>>
    /\ UNCHANGED <<node, whole, schedule, request, deletion, upload, copies, nodeHistory,
                   crossed, refused>>

\* The storages are validated over the network; then backup_initiate saves the node.
Initiated(r) ==
    /\ pc[r] = "loaded"
    /\ Advance(r, "dumping")
    /\ Overwrite("ACTIVE")
    /\ UNCHANGED <<schedule, request, deletion, row, upload, copies, raced, crossed, copyHistory>>

\* The dump is over and the uploads are sent; the backup's row is saved on the way.
Dumped(r) ==
    /\ pc[r] = "dumping"
    /\ row[r] # "gone"
    /\ Advance(r, "sent")
    /\ row' = [row EXCEPT ![r] = "active"]
    /\ upload' = [upload EXCEPT ![r] = "queued"]
    /\ UNCHANGED <<node, whole, schedule, request, deletion, copies, nodeHistory, crossed,
                   copyHistory>>

\* "Node itself should be available now."
Over(r) ==
    /\ pc[r] = "sent"
    /\ Advance(r, "over")
    /\ Overwrite("ACTIVE")
    /\ UNCHANGED <<schedule, request, deletion, row, upload, copies, raced, crossed, copyHistory>>

\* A failure leaves the node alone; the row is written when it is still there.
Settle(r) == row' = [row EXCEPT ![r] = IF @ = "gone" THEN "gone" ELSE "settled"]

DumpFails(r) ==
    /\ pc[r] \in {"loaded", "dumping"}
    /\ "network" \in Env \/ row[r] = "gone"
    /\ \/ Advance(r, "queued") /\ UNCHANGED row
       \/ Advance(r, "over") /\ Settle(r)
    /\ UNCHANGED <<node, whole, schedule, request, deletion, upload, copies, nodeHistory,
                   crossed, copyHistory>>

\* backup_timeout_reset.
TimeLimit(r) ==
    /\ "limit" \in Env
    /\ pc[r] = "dumping"
    /\ Advance(r, "over")
    /\ Settle(r)
    /\ Overwrite("ACTIVE")
    /\ UNCHANGED <<schedule, request, deletion, upload, copies, raced, crossed, copyHistory>>

\* cancel stops the task and a running upload, and resets the node (backup_complete_reset).
Cancel(r) ==
    /\ "cancel" \in Env
    /\ node \in {"ACTIVE", "PAUSED"}
    /\ row[r] = "active"
    /\ Settle(r)
    /\ Advance(r, "over")
    /\ upload' = [upload EXCEPT ![r] = IF @ = "running" THEN "over" ELSE @]
    /\ Overwrite("ACTIVE")
    /\ raced' = TRUE
    /\ UNCHANGED <<schedule, request, deletion, copies, crossed, copyHistory>>

\* storage_upload looks its rows up first.
UploadBegin(r) ==
    /\ upload[r] = "queued"
    /\ upload' = [upload EXCEPT ![r] =
                      IF node # "gone" /\ row[r] # "gone" THEN "running" ELSE "over"]
    /\ UNCHANGED <<node, whole, schedule, request, deletion, pc, row, copies, nodeHistory,
                   crossed, copyHistory>>

UploadStore(r) ==
    /\ upload[r] = "running"
    /\ upload' = [upload EXCEPT ![r] = "stored"]
    /\ copies' = copies \cup {r}
    /\ UNCHANGED <<node, whole, schedule, request, deletion, pc, row, nodeHistory, crossed,
                   copyHistory>>

\* finalize_backup: whatever the row says, it is complete now.
Finalize(r) ==
    /\ upload[r] = "stored"
    /\ upload' = [upload EXCEPT ![r] = "over"]
    /\ Settle(r)
    /\ UNCHANGED <<node, whole, schedule, request, deletion, pc, copies, nodeHistory, crossed,
                   copyHistory>>

-----------------------------------------------------------------------------

RequestStep(q) ==
    \/ SaveNode(q) \/ SendDelete(q) \/ SaveSchedule(q) \/ FetchBeat(q) \/ UpdateBeat(q)
    \/ CreateBeat(q) \/ LinkBeat(q) \/ DestroyBeat(q) \/ DestroyRow(q)

PurgeStep(q) ==
    \/ PurgeStart(q) \/ PurgeBeat(q) \/ PurgeRows(q) \/ PurgeNode(q) \/ PurgeFail(q)
    \/ \E r \in Run : PurgeBackup(q, r)

RunStep(r) ==
    \/ Gate(r) \/ Initiated(r) \/ Dumped(r) \/ Over(r) \/ DumpFails(r)
    \/ UploadBegin(r) \/ UploadStore(r) \/ Finalize(r)

Next ==
    \/ \E q \in Request : RequestStep(q) \/ PurgeStep(q)
    \/ \E q \in Request, o \in Op : LoadNode(q, o) \/ LoadSchedule(q, o)
    \/ \E r \in Run : RunStep(r) \/ Fire(r) \/ TimeLimit(r) \/ Cancel(r)

Spec == Init /\ [][Next]_vars

\* A worker keeps taking deletion tasks.
FairSpec == Spec /\ \A q \in Request : WF_vars(PurgeStep(q))

-----------------------------------------------------------------------------
(* Properties.                                                             *)

\* The node has the status last asked for, and is gone at most if that was its deletion,
\* unless another request, a backup or a deletion under way held its row while it was asked or
\* a backup was cancelled since: no backup that starts later undoes a pause or a deletion.
StatusIsLastAsked ==
    ~ raced => node = asked \/ (node = "gone" /\ asked = "DELETE_REQUESTED")

\* The schedule's row and its beat entry agree whenever no request and no deletion is half
\* way, and the entry goes with the row; unless requests overlapped or failed.
BeatFollowsRow ==
    ~ crossed /\ ScheduleHolders = {} /\ Purging = {} =>
        /\ sched = "ACTIVE" => beat = "on"
        /\ sched = "PAUSED" => beat = "off"
        /\ sched \in {"none", "gone"} => beat = "none"

\* Of a deleted node nothing stays stored but the copies whose deletion failed and those of
\* backups in flight while it was being deleted.  The console promises more, "all the backups
\* of this node from BackupSheep and your own storage/cloud hosting" (node/detail.html): this
\* is what a deletion does leave, where no row names it any more.
DeletedLeavesOnlyLate == node = "gone" => copies \subseteq late \cup refused

\* A deletion that was sent removes the node, unless its mark was overwritten or the task
\* used up its retries.
DeletionHappens ==
    \A q \in Request : purge[q] = "queued" ~> (node = "gone" \/ undone \/ purge[q] = "dead")
=============================================================================
