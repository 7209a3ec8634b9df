-------------------------------- MODULE Restore --------------------------------
(***************************************************************************)
(* The restores of one website or database backup.  A request makes a row  *)
(* and sends a message; the task fetches the stored archive to the local   *)
(* disk, extracts it, and pushes what it finds there back onto the server. *)
(* Nothing keeps two restores of a backup apart, and their working files   *)
(* are named after the backup, not after the restore; delete_from_disk,    *)
(* queued when a restore ends, removes whatever carries the name when it   *)
(* runs, on another queue than the restores.                               *)
(*                                                                         *)
(* A file of the archive (a dump, for a database) is a model value.  The   *)
(* site tells a file still as it was from one restored and one removed.    *)
(* A file that is extracted a second time counts as present throughout.    *)
(***************************************************************************)
EXTENDS Naturals, FiniteSets

CONSTANTS
    Restores,  \* restore rows, all of one backup
    File,      \* files (or dumps) of its archive
    Deleting,  \* restores asked to remove remote files that are not in the backup
    Engine,    \* "website" (lftp mirror -R) or "database" (one import per dump)
    Env        \* which faults and operator actions the behaviours include

EnvKinds == {"network",  \* fetching, connecting or pushing fails
             "copy",     \* the stored copy is deleted
             "broker",   \* the broker refuses a message
             "crash"}    \* a worker process dies

ASSUME RestoreAssumption ==
    /\ IsFiniteSet(Restores)
    /\ IsFiniteSet(File)
    /\ File # {}
    /\ Deleting \subseteq Restores
    /\ Engine \in {"website", "database"}
    /\ Engine = "database" => Deleting = {}
    /\ Env \subseteq EnvKinds

VARIABLES
    status,  \* the row's status, "none" before it exists
    pc,      \* its message, then its task
    left,    \* members of the archive the task has still to extract
    listed,  \* what the task found in the tree and set out to push
    pushed,  \* files it has put on the server
    copy,    \* the stored copy still exists
    zip,     \* _storage/restore_<backup>.zip
    writer,  \* the task that opened the zip for writing last, {} once it has closed it
    dir,     \* the directory _storage/restore_<backup>/ exists
    tree,    \* the files in it
    sweep,   \* the delete_from_disk each restore queues when it ends
    wipe,    \* entries that sweep has listed and not yet removed
    site,    \* the files on the server
    shared   \* history: restores that met the files or the sweep of another one

vars == <<status, pc, left, listed, pushed, copy, zip, writer, dir, tree, sweep, wipe,
          site, shared>>
task == <<left, listed, pushed>>
disk == <<zip, writer, dir, tree>>
sweeper == <<sweep, wipe>>

-----------------------------------------------------------------------------

Settled == {"COMPLETE", "FAILED"}
RestoreStatus == Settled \cup {"none", "PENDING", "IN_PROGRESS"}
Working == {"started", "fetching", "extracting", "pushing"}
TaskState == Working \cup {"none", "queued", "unsent", "done", "dead"}
Pending == {"queued", "wiping"}
SweepState == Pending \cup {"none", "refused", "done"}

TypeOK ==
    /\ status \in [Restores -> RestoreStatus]
    /\ pc \in [Restores -> TaskState]
    /\ left \in [Restores -> SUBSET File]
    /\ listed \in [Restores -> SUBSET File]
    /\ pushed \in [Restores -> SUBSET File]
    /\ copy \in BOOLEAN
    /\ zip \in {"none", "partial", "full"}
    /\ writer \in SUBSET Restores
    /\ dir \in BOOLEAN
    /\ tree \in SUBSET File
    /\ sweep \in [Restores -> SweepState]
    /\ wipe \in [Restores -> SUBSET File]
    /\ site \in [File -> {"old", "restored", "removed"}]
    /\ shared \in SUBSET Restores

Init ==
    /\ status = [r \in Restores |-> "none"]
    /\ pc = [r \in Restores |-> "none"]
    /\ left = [r \in Restores |-> {}]
    /\ listed = [r \in Restores |-> {}]
    /\ pushed = [r \in Restores |-> {}]
    /\ copy = TRUE
    /\ zip = "none"
    /\ writer = {}
    /\ dir = FALSE
    /\ tree = {}
    /\ sweep = [r \in Restores |-> "none"]
    /\ wipe = [r \in Restores |-> {}]
    /\ site = [f \in File |-> "old"]
    /\ shared = {}

Advance(r, s) == pc' = [pc EXCEPT ![r] = s]
SetRow(r, s) == status' = [status EXCEPT ![r] = s]

-----------------------------------------------------------------------------
(* The request.                                                            *)

\* The view looks at the backup and its stored copy, never at other restores.  The row is
\* made before the message is sent: refused by the broker, it stays PENDING.
Request(r) ==
    /\ status[r] = "none"
    /\ copy
    /\ SetRow(r, "PENDING")
    /\ \/ Advance(r, "queued")
       \/ "broker" \in Env /\ Advance(r, "unsent")
    /\ UNCHANGED <<task, copy, disk, sweeper, site, shared>>

Others(r) == {q \in Restores \ {r} : pc[q] \in Working}

Start(r) ==
    /\ pc[r] = "queued"
    /\ Advance(r, "started")
    /\ SetRow(r, "IN_PROGRESS")
    /\ shared' = IF Others(r) # {} \/ \E q \in Restores \ {r} : sweep[q] \in Pending
                 THEN shared \cup Others(r) \cup {r} ELSE shared
    /\ UNCHANGED <<task, copy, disk, sweeper, site>>

-----------------------------------------------------------------------------
(* Fetching and extracting.                                                *)

\* The file is opened for writing: an archive already there is cut to nothing.
FetchBegin(r) ==
    /\ pc[r] = "started"
    /\ copy
    /\ Advance(r, "fetching")
    /\ zip' = "partial"
    /\ writer' = {r}
    /\ UNCHANGED <<status, task, copy, dir, tree, sweeper, site, shared>>

\* The last byte is written.  Only the task that opened the file last leaves a whole
\* archive under the name; the size is asked of the name, which must still exist.
FetchEnd(r) ==
    /\ pc[r] = "fetching"
    /\ zip # "none"
    /\ Advance(r, "extracting")
    /\ zip' = IF r \in writer THEN "full" ELSE zip
    /\ writer' = writer \ {r}
    /\ left' = [left EXCEPT ![r] = File]
    /\ UNCHANGED <<status, listed, pushed, copy, dir, tree, sweeper, site, shared>>

\* A member is extracted; directories are made as they are needed.  The archive is opened
\* with the first member, which it must be whole for, and held open: removing it later does
\* no harm, and writing over it may break the extraction.
Extract(r, f) ==
    /\ pc[r] = "extracting"
    /\ f \in left[r]
    /\ left[r] = File => zip = "full"
    /\ left' = [left EXCEPT ![r] = @ \ {f}]
    /\ dir' = TRUE
    /\ tree' = tree \cup {f}
    /\ UNCHANGED <<status, pc, listed, pushed, copy, zip, writer, sweeper, site, shared>>

-----------------------------------------------------------------------------
(* Pushing.                                                                *)

\* Mutant: extraction is not waited for.
ListEarly(r) ==
    /\ pc[r] = "extracting"
    /\ dir
    /\ Engine = "database" => tree # {}
    /\ Advance(r, "pushing")
    /\ listed' = [listed EXCEPT ![r] = tree]
    /\ UNCHANGED <<status, left, pushed, copy, disk, sweeper, site, shared>>

\* lftp lists the tree, _classify_dumps the dumps: what is there is what is pushed.
List(r) ==
    /\ pc[r] = "extracting"
    /\ left[r] = {}
    /\ dir
    /\ Engine = "database" => tree # {}
    /\ Advance(r, "pushing")
    /\ listed' = [listed EXCEPT ![r] = tree]
    /\ UNCHANGED <<status, left, pushed, copy, disk, sweeper, site, shared>>

\* A file that is gone when its turn comes is a failed transfer.
Push(r, f) ==
    /\ pc[r] = "pushing"
    /\ f \in listed[r] \ pushed[r]
    /\ f \in tree
    /\ pushed' = [pushed EXCEPT ![r] = @ \cup {f}]
    /\ site' = [site EXCEPT ![f] = "restored"]
    /\ UNCHANGED <<status, pc, left, listed, copy, disk, sweeper, shared>>

-----------------------------------------------------------------------------
(* The end of a restore.                                                   *)

\* Mutant: a file that is gone when its turn comes is waited for.
ObstructedPatient(r) ==
    \/ pc[r] = "started" /\ ~ copy
    \/ pc[r] = "fetching" /\ (~ copy \/ zip = "none")
    \/ pc[r] = "fetching" /\ r \notin writer /\ zip = "partial"
    \/ pc[r] = "extracting" /\ left[r] = File /\ zip # "full"
    \/ pc[r] = "extracting" /\ zip = "partial"
    \/ pc[r] = "extracting" /\ left[r] = {} /\ tree = {}

\* What the next operation of a restore fails on, or may fail on: no copy, an archive
\* another restore is writing over, nothing extracted, a file that is gone.
Obstructed(r) ==
    \/ pc[r] = "started" /\ ~ copy
    \/ pc[r] = "fetching" /\ (~ copy \/ zip = "none")
    \/ pc[r] = "fetching" /\ r \notin writer /\ zip = "partial"
    \/ pc[r] = "extracting" /\ left[r] = File /\ zip # "full"
    \/ pc[r] = "extracting" /\ zip = "partial"
    \/ pc[r] = "extracting" /\ left[r] = {} /\ tree = {}
    \/ pc[r] = "pushing" /\ ~ listed[r] \subseteq pushed[r] \cup tree

\* The finally clause of the engine; a refusal there is one more exception.
QueueSweep(r) ==
    /\ sweep' = [sweep EXCEPT ![r] = "queued"]
    /\ UNCHANGED wipe

SweepRefused(r) ==
    /\ "broker" \in Env
    /\ sweep' = [sweep EXCEPT ![r] = "refused"]
    /\ UNCHANGED wipe

\* Mutant: nothing is swept after a failure.
RaiseUnswept(r) ==
    /\ pc[r] \in Working
    /\ Advance(r, "done")
    /\ SetRow(r, "FAILED")
    /\ UNCHANGED <<task, copy, disk, sweeper, site, shared>>

\* Mutant: the row is given a status of backups.
RaiseTimeout(r) ==
    /\ pc[r] \in Working
    /\ Advance(r, "done")
    /\ SetRow(r, "TIMEOUT")
    /\ QueueSweep(r) \/ SweepRefused(r)
    /\ UNCHANGED <<task, copy, disk, site, shared>>

\* Whatever goes wrong ends the restore, and nothing retries it.
Raise(r) ==
    /\ pc[r] \in Working
    /\ Advance(r, "done")
    /\ SetRow(r, "FAILED")
    /\ QueueSweep(r) \/ SweepRefused(r)
    /\ UNCHANGED <<task, copy, disk, site, shared>>

Fail(r) == Obstructed(r) /\ Raise(r)

\* Every listed file was transferred.  With --delete, lftp then removes from the server
\* what it did not find in the tree.
Finish(r) ==
    /\ pc[r] = "pushing"
    /\ listed[r] \subseteq pushed[r]
    /\ site' = IF r \in Deleting
               THEN [f \in File |-> IF f \in listed[r] THEN site[f] ELSE "removed"]
               ELSE site
    /\ Advance(r, "done")
    /\ \/ QueueSweep(r) /\ SetRow(r, "COMPLETE")
       \/ SweepRefused(r) /\ SetRow(r, "FAILED")
    /\ UNCHANGED <<task, copy, disk, shared>>

-----------------------------------------------------------------------------
(* delete_from_disk: the directory, entry by entry, then the archive.       *)

SweepBegin(r) ==
    /\ sweep[r] = "queued"
    /\ sweep' = [sweep EXCEPT ![r] = "wiping"]
    /\ wipe' = [wipe EXCEPT ![r] = tree]
    /\ UNCHANGED <<status, pc, task, copy, disk, site, shared>>

Wipe(r, f) ==
    /\ f \in wipe[r]
    /\ wipe' = [wipe EXCEPT ![r] = @ \ {f}]
    /\ tree' = tree \ {f}
    /\ UNCHANGED <<status, pc, task, copy, zip, writer, dir, sweep, site, shared>>

\* rmtree ignores errors: a directory that is not empty any more stays.
SweepEnd(r) ==
    /\ sweep[r] = "wiping"
    /\ wipe[r] = {}
    /\ sweep' = [sweep EXCEPT ![r] = "done"]
    /\ dir' = (dir /\ tree # {})
    /\ zip' = "none"
    /\ writer' = {}
    /\ UNCHANGED <<status, pc, task, copy, tree, wipe, site, shared>>

-----------------------------------------------------------------------------
(* Operators and faults.                                                   *)

BreakDown(r) == "network" \in Env /\ Raise(r)

\* The copy is deleted with the backup, by retention or by an operator.
DeleteCopy ==
    /\ "copy" \in Env
    /\ copy
    /\ copy' = FALSE
    /\ UNCHANGED <<status, pc, task, disk, sweeper, site, shared>>

\* The message was acknowledged when it was taken.
Crash(r) ==
    /\ "crash" \in Env
    /\ pc[r] \in Working
    /\ Advance(r, "dead")
    /\ UNCHANGED <<status, task, copy, disk, sweeper, site, shared>>

-----------------------------------------------------------------------------

TaskStep(r) ==
    \/ Start(r) \/ FetchBegin(r) \/ FetchEnd(r) \/ List(r) \/ Fail(r) \/ Finish(r)
    \/ \E f \in File : Extract(r, f) \/ Push(r, f)

SweepStep(r) ==
    \/ SweepBegin(r) \/ SweepEnd(r)
    \/ \E f \in File : Wipe(r, f)

Next ==
    \/ \E r \in Restores : Request(r) \/ TaskStep(r) \/ SweepStep(r) \/ BreakDown(r) \/ Crash(r)
    \/ DeleteCopy

Spec == Init /\ [][Next]_vars

\* Workers keep consuming their queues and every transfer ends.
FairSpec == Spec /\ \A r \in Restores : WF_vars(TaskStep(r)) /\ WF_vars(SweepStep(r))

-----------------------------------------------------------------------------
(* Properties.                                                             *)

\* A restore that met no other one says COMPLETE only when every file of the backup was
\* put back, whatever was lost, refused or deleted on the way (restore_website_backup).
CompleteMeansRestored ==
    \A r \in Restores \ shared : status[r] = "COMPLETE" => pushed[r] = File

\* Removing what is not in the backup never removes a file that is in it, as long as no
\* deleting restore met another one (mirror -R --delete).
DeleteSparesTheBackup ==
    Deleting \cap shared = {} => \A f \in File : site[f] # "removed"

\* Working files on the local disk always have a restore still running or a sweep still to
\* run; else their worker died or the broker refused the sweep (the finally clause).
LeftoversHaveSweeper ==
    zip # "none" \/ tree # {} =>
        \E r \in Restores :
            pc[r] \in Working \cup {"dead"} \/ sweep[r] \in Pending \cup {"refused"}

\* Every requested restore settles unless its message was refused or its worker died: no
\* interference of sweeps and other restores leaves it waiting (max_retries=0).
RestoreSettles ==
    \A r \in Restores :
        status[r] # "none" ~> (status[r] \in Settled \/ pc[r] \in {"unsent", "dead"})
=============================================================================
