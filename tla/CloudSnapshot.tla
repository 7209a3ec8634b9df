----------------------------- MODULE CloudSnapshot -----------------------------
(***************************************************************************)
(* The backups of one cloud node: a Celery task asks the provider for a    *)
(* snapshot and hands over to poll_cloud_backup, which asks the provider   *)
(* for its progress, re-queues itself in between, completes the row and    *)
(* applies the schedule's keep-last retention.  Every provider's task has  *)
(* this control; the calls are those of a DigitalOcean droplet, which      *)
(* records the action it started and learns the snapshot's id when the     *)
(* action is completed.                                                    *)
(*                                                                         *)
(* The guard is the one of FileBackup.  The schedule's and connection's    *)
(* part of the gate is left to that module: here only the node is paused.  *)
(* One step is what a process does between two slow operations.            *)
(***************************************************************************)
EXTENDS Naturals, FiniteSets

CONSTANTS
    Task,        \* Celery task ids, hence backup rows, of the node
    Scheduled,   \* tasks fired by the node's schedule
    KeepLast,    \* CoreSchedule.keep_last (0: keep everything)
    MaxRetries,  \* retries of the task (4 in the code)
    Env          \* which operator actions and faults the behaviours include

EnvKinds == {"pause",      \* an operator pauses and resumes the node
             "cancel",     \* an operator cancels a backup
             "late",       \* a revocation may miss what it could have stopped
             "destroy",    \* an operator deletes a backup
             "crash",      \* a worker process dies
             "lost",       \* the provider acts, and its reply does not arrive
             "locked",     \* the provider makes one snapshot of the node at a time
             "hidden",     \* the provider's list may miss a new snapshot
             "broker",     \* the broker refuses a message
             "timeout",    \* the task's soft limit, the poll's 24 hours
             "exception"}  \* soft_delete raises outside its try block

ASSUME CloudAssumption ==
    /\ Scheduled \subseteq Task
    /\ IsFiniteSet(Task)
    /\ KeepLast \in Nat
    /\ MaxRetries \in Nat
    /\ Env \subseteq EnvKinds

Attempt == 0..MaxRetries

VARIABLES
    node,     \* CoreNode.status
    run,      \* worker side of each task
    attempt,  \* its retries so far
    backup,   \* UtilBackup.status of the task's row, "none" before it exists
    born,     \* creation order of the rows
    snap,     \* at the provider: the snapshot each attempt of each task asked for
    action,   \* action_id: the attempt it belongs to, {} when none is recorded
    uid,      \* unique_id: the attempt whose snapshot it names, {} when none
    poll,     \* the poll_cloud_backup of each backup
    victims,  \* backups a poll has still to prune
    touched,  \* history: tasks an operator cancelled or deleted
    hit       \* history: tasks that met a fault, were turned away, or ran into a touched backup

vars == <<node, run, attempt, backup, born, snap, action, uid, poll, victims, touched, hit>>
row == <<backup, born, action, uid>>
history == <<touched, hit>>

-----------------------------------------------------------------------------

ActiveStatus == {"IN_PROGRESS", "RETRYING"}
BackupStatus == ActiveStatus \cup {"none", "COMPLETE", "FAILED", "TIMEOUT", "CANCELLED",
                                   "MAX_RETRY_FAILED", "DELETE_COMPLETED", "DELETE_FAILED"}
NodeStatus == {"ACTIVE", "PAUSED"}
Working == {"admitted", "initiated", "requested", "handing"}
RunState == Working \cup {"unsent", "queued", "waiting", "skipped", "done"}
SnapState == {"none", "running", "ready", "errored", "deleted"}
PollState == {"none", "queued", "asking", "pruning", "done"}

TypeOK ==
    /\ node \in NodeStatus
    /\ run \in [Task -> RunState]
    /\ attempt \in [Task -> Attempt]
    /\ backup \in [Task -> BackupStatus]
    /\ born \in [Task -> Nat]
    /\ snap \in [Task -> [Attempt -> SnapState]]
    /\ action \in [Task -> SUBSET Attempt]
    /\ uid \in [Task -> SUBSET Attempt]
    /\ poll \in [Task -> PollState]
    /\ victims \in [Task -> SUBSET Task]
    /\ touched \in SUBSET Task
    /\ hit \in SUBSET Task

Init ==
    /\ node = "ACTIVE"
    /\ run = [t \in Task |-> "unsent"]
    /\ attempt = [t \in Task |-> 0]
    /\ backup = [t \in Task |-> "none"]
    /\ born = [t \in Task |-> 0]
    /\ snap = [t \in Task |-> [a \in Attempt |-> "none"]]
    /\ action = [t \in Task |-> {}]
    /\ uid = [t \in Task |-> {}]
    /\ poll = [t \in Task |-> "none"]
    /\ victims = [t \in Task |-> {}]
    /\ touched = {}
    /\ hit = {}

Active(t) == backup[t] \in ActiveStatus
Disturb(t) == hit' = hit \cup {t} /\ UNCHANGED touched
Advance(t, pc) == run' = [run EXCEPT ![t] = pc]
SetRow(t, status) == backup' = [backup EXCEPT ![t] = status]

-----------------------------------------------------------------------------
(* The task.                                                               *)

\* take_snapshot requires an ACTIVE node; run_scheduled_backup does not look at it.
Send(t) ==
    /\ run[t] = "unsent"
    /\ t \notin Scheduled => node = "ACTIVE"
    /\ Advance(t, "queued")
    /\ UNCHANGED <<node, attempt, row, snap, poll, victims, history>>

\* The gate is open: the node is loaded, and connection and node are validated, whatever
\* comes out of it.
Admit(t) ==
    /\ run[t] \in {"queued", "waiting"}
    /\ node = "ACTIVE"
    /\ Advance(t, "admitted")
    /\ UNCHANGED <<node, attempt, row, snap, poll, victims, history>>

TurnAway(t) ==
    /\ run[t] \in {"queued", "waiting"}
    /\ node # "ACTIVE"
    /\ Advance(t, "done")
    /\ Disturb(t)
    /\ UNCHANGED <<node, attempt, row, snap, poll, victims>>

\* Mutant: a retrying backup does not count.
NoRetrying(t) == \E u \in Task \ {t} : backup[u] = "IN_PROGRESS"

OtherActive(t) == \E u \in Task \ {t} : Active(u)

SkipDuplicate(t) ==
    /\ run[t] = "admitted"
    /\ OtherActive(t)
    /\ Advance(t, "skipped")
    /\ hit' = IF \E u \in touched : Active(u) THEN hit \cup {t} ELSE hit
    /\ UNCHANGED <<node, attempt, row, snap, poll, victims, touched>>

\* backup_initiate: the row is created or taken over, and the node loaded at the gate saved.
Initiate(t) ==
    /\ run[t] = "admitted"
    /\ ~ OtherActive(t)
    /\ Advance(t, "initiated")
    /\ SetRow(t, "IN_PROGRESS")
    /\ born' = IF backup[t] = "none"
               THEN [born EXCEPT ![t] = 1 + Cardinality({u \in Task : backup[u] # "none"})]
               ELSE born
    /\ node' = "ACTIVE"
    /\ UNCHANGED <<attempt, action, uid, snap, poll, victims, history>>

\* Mutants: one retry too many; the row is settled while the retry waits.
OneRetryMore(t) ==
    /\ Advance(t, "waiting") /\ SetRow(t, "RETRYING")
    /\ attempt' = [attempt EXCEPT ![t] = attempt[t] + 1]

SettledRetry(t) ==
    /\ SetRow(t, "MAX_RETRY_FAILED")
    /\ IF attempt[t] < MaxRetries
       THEN Advance(t, "waiting") /\ attempt' = [attempt EXCEPT ![t] = attempt[t] + 1]
       ELSE Advance(t, "done") /\ UNCHANGED attempt

\* The task's handler of every failure: RETRYING and self.retry(), or MAX_RETRY_FAILED.
RetryOrGiveUp(t) ==
    IF attempt[t] < MaxRetries
    THEN /\ Advance(t, "waiting")
         /\ SetRow(t, "RETRYING")
         /\ attempt' = [attempt EXCEPT ![t] = attempt[t] + 1]
    ELSE /\ Advance(t, "done")
         /\ SetRow(t, "MAX_RETRY_FAILED")
         /\ UNCHANGED attempt

\* create_snapshot, only while no action is recorded.
Request(t) ==
    /\ run[t] = "initiated"
    /\ action[t] = {}
    /\ "locked" \in Env => \A u \in Task, a \in Attempt : snap[u][a] # "running"
    /\ snap' = [snap EXCEPT ![t][attempt[t]] = "running"]
    /\ Advance(t, "requested")
    /\ UNCHANGED <<node, attempt, row, poll, victims, history>>

\* The provider refuses, or the droplet cannot be read.
Refuse(t) ==
    /\ run[t] = "initiated"
    /\ action[t] = {}
    /\ RetryOrGiveUp(t)
    /\ UNCHANGED <<node, born, action, uid, snap, poll, victims, history>>

\* The reply arrives: the action id is saved, and with it the row as the task loaded it.
Record(t) ==
    /\ run[t] = "requested"
    /\ action' = [action EXCEPT ![t] = {attempt[t]}]
    /\ SetRow(t, "IN_PROGRESS")
    /\ Advance(t, "handing")
    /\ UNCHANGED <<node, attempt, born, uid, snap, poll, victims, history>>

\* The connection breaks, or the reply is an error, although the provider took the request.
LoseReply(t) ==
    /\ "lost" \in Env
    /\ run[t] = "requested"
    /\ RetryOrGiveUp(t)
    /\ Disturb(t)
    /\ UNCHANGED <<node, born, action, uid, snap, poll, victims>>

Handing(t) == run[t] = "handing" \/ (run[t] = "initiated" /\ action[t] # {})

\* poll_cloud_backup is queued, also by a retry that finds the action recorded.
Hand(t) ==
    /\ Handing(t)
    /\ poll' = [poll EXCEPT ![t] = "queued"]
    /\ Advance(t, "done")
    /\ UNCHANGED <<node, attempt, row, snap, victims, history>>

HandRefused(t) ==
    /\ "broker" \in Env
    /\ Handing(t)
    /\ RetryOrGiveUp(t)
    /\ Disturb(t)
    /\ UNCHANGED <<node, born, action, uid, snap, poll, victims>>

\* The broker refuses the retry's message: the row stays RETRYING.
RetryRefused(t) ==
    /\ "broker" \in Env
    /\ run[t] = "waiting"
    /\ Advance(t, "done")
    /\ Disturb(t)
    /\ UNCHANGED <<node, attempt, row, snap, poll, victims>>

\* The soft time limit: within create_snapshot it is one more failure, after it
\* backup_timeout_reset.
TimeOut(t) ==
    /\ "timeout" \in Env
    /\ Handing(t)
    /\ Advance(t, "done")
    /\ SetRow(t, "TIMEOUT")
    /\ node' = "ACTIVE"
    /\ poll' \in {poll, [poll EXCEPT ![t] = "queued"]}
    /\ Disturb(t)
    /\ UNCHANGED <<attempt, born, action, uid, snap, victims>>

-----------------------------------------------------------------------------
(* poll_cloud_backup: one check of the provider per message.               *)

SetPoll(t, st) == poll' = [poll EXCEPT ![t] = st]

\* The statuses at which a poll stops.
PollStops == {"COMPLETE", "FAILED", "TIMEOUT", "CANCELLED", "DELETE_COMPLETED"}

PollRead(t) ==
    /\ poll[t] = "queued"
    /\ SetPoll(t, IF backup[t] \in PollStops THEN "done" ELSE "asking")
    /\ UNCHANGED <<node, run, attempt, row, snap, victims, history>>

\* Mutant: the check that finds nothing new is the last one.
PollOnce(t) ==
    /\ poll[t] = "asking"
    /\ SetPoll(t, "done")
    /\ UNCHANGED <<node, run, attempt, row, snap, victims, history>>

\* In progress, or the check failed: the poll queues itself again.
PollAgain(t) ==
    /\ poll[t] = "asking"
    /\ SetPoll(t, "queued")
    /\ UNCHANGED <<node, run, attempt, row, snap, victims, history>>

PollAgainRefused(t) ==
    /\ "broker" \in Env
    /\ poll[t] = "asking"
    /\ SetPoll(t, "done")
    /\ Disturb(t)
    /\ UNCHANGED <<node, run, attempt, row, snap, victims>>

\* 24 hours of checks have passed: backup_timeout_reset.
PollTimeOut(t) ==
    /\ "timeout" \in Env
    /\ poll[t] = "asking"
    /\ SetPoll(t, "done")
    /\ SetRow(t, "TIMEOUT")
    /\ node' = "ACTIVE"
    /\ Disturb(t)
    /\ UNCHANGED <<run, attempt, born, action, uid, snap, victims>>

\* What the provider says of the recorded action.
ActionIn(t, states) == \E a \in action[t] : snap[t][a] \in states

PollFail(t) ==
    /\ poll[t] = "asking"
    /\ ActionIn(t, {"errored"})
    /\ SetPoll(t, "done")
    /\ SetRow(t, "FAILED")
    /\ node' = "ACTIVE"
    /\ UNCHANGED <<run, attempt, born, action, uid, snap, victims, history>>

\* Mutants: an action still in progress passes for a completed one; one backup too many
\* is in excess.
NotErrored(t) == ActionIn(t, {"running", "ready", "deleted"})

ExcessAndOne(C) == {u \in C : Cardinality({v \in C : born[v] > born[u]}) + 1 >= KeepLast}

ActionCompleted(t) == ActionIn(t, {"ready", "deleted"})

\* completed[:-keep_last] of the schedule's complete backups, oldest first.
Excess(C) == {u \in C : Cardinality({v \in C : born[v] > born[u]}) >= KeepLast}

\* The snapshots of the backup's name in the provider's list.
Listed(t) == {a \in Attempt : snap[t][a] = "ready"}

\* The action is completed: the snapshot is looked up by its name, and the row completed
\* whether it is found or not.  Then the schedule's complete backups are read.
PollComplete(t) ==
    /\ poll[t] = "asking"
    /\ ActionCompleted(t)
    /\ SetRow(t, "COMPLETE")
    /\ \/ \E a \in Listed(t) : uid' = [uid EXCEPT ![t] = {a}]
       \/ (Listed(t) = {} \/ "hidden" \in Env) /\ UNCHANGED uid
    /\ node' = "ACTIVE"
    /\ SetPoll(t, "pruning")
    /\ victims' = [victims EXCEPT ![t] =
                     IF t \in Scheduled /\ KeepLast > 0
                     THEN Excess({u \in Scheduled : backup'[u] = "COMPLETE"})
                     ELSE {}]
    /\ UNCHANGED <<run, attempt, born, action, snap, history>>

\* Mutant: the provider's answer is not looked at.
BlindDelete(u) ==
    /\ SetRow(u, "DELETE_COMPLETED")
    /\ snap' \in {snap, [snap EXCEPT ![u] = [a \in Attempt |-> IF a \in uid[u] THEN "deleted" ELSE @[a]]]}

\* soft_delete: the provider deletes the snapshot that unique_id names, or the row
\* becomes DELETE_FAILED, which it can also when the provider did delete it.
SoftDelete(u) ==
    \/ \E a \in uid[u] :
          /\ snap[u][a] = "ready"
          /\ snap' = [snap EXCEPT ![u][a] = "deleted"]
          /\ \/ SetRow(u, "DELETE_COMPLETED")
             \/ "lost" \in Env /\ SetRow(u, "DELETE_FAILED")
    \/ SetRow(u, "DELETE_FAILED") /\ UNCHANGED snap

PruneOne(t) ==
    /\ poll[t] = "pruning"
    /\ \E u \in victims[t] :
          /\ \A v \in victims[t] : born[u] <= born[v]
          /\ SoftDelete(u)
          /\ victims' = [victims EXCEPT ![t] = @ \ {u}]
    /\ UNCHANGED <<node, run, attempt, born, action, uid, poll, history>>

\* The provider's client cannot be had: the exception ends the poll.
PruneAbort(t) ==
    /\ "exception" \in Env
    /\ poll[t] = "pruning"
    /\ victims[t] # {}
    /\ SetPoll(t, "done")
    /\ victims' = [victims EXCEPT ![t] = {}]
    /\ UNCHANGED <<node, run, attempt, row, snap, history>>

PollEnd(t) ==
    /\ poll[t] = "pruning"
    /\ victims[t] = {}
    /\ SetPoll(t, "done")
    /\ UNCHANGED <<node, run, attempt, row, snap, victims, history>>

-----------------------------------------------------------------------------
(* Operators, faults and the provider.                                     *)

Touch(t) == touched' = touched \cup {t} /\ UNCHANGED hit

\* cancel: revoke(celery_task_id, terminate=True) ends the task and not its poll.
Cancel(t) ==
    /\ "cancel" \in Env
    /\ backup[t] # "none"
    /\ \/ /\ run[t] \in Working \cup {"waiting"}
          /\ Advance(t, "done")
       \/ /\ run[t] \notin Working \cup {"waiting"} \/ "late" \in Env
          /\ UNCHANGED run
    /\ SetRow(t, "CANCELLED")
    /\ node' = "ACTIVE"
    /\ Touch(t)
    /\ UNCHANGED <<attempt, born, action, uid, snap, poll, victims>>

Destroy(t) ==
    /\ "destroy" \in Env
    /\ backup[t] # "none"
    /\ SoftDelete(t)
    /\ Touch(t)
    /\ UNCHANGED <<node, run, attempt, born, action, uid, poll, victims>>

SetNode(status) ==
    /\ "pause" \in Env
    /\ node # status
    /\ node' = status
    /\ UNCHANGED <<run, attempt, row, snap, poll, victims, history>>

\* Celery has acknowledged the message: what a dead worker was doing is not resumed.
CrashRun(t) ==
    /\ "crash" \in Env
    /\ run[t] \in Working
    /\ Advance(t, "done")
    /\ Disturb(t)
    /\ UNCHANGED <<node, attempt, row, snap, poll, victims>>

CrashPoll(t) ==
    /\ "crash" \in Env
    /\ poll[t] \in {"asking", "pruning"}
    /\ SetPoll(t, "done")
    /\ victims' = [victims EXCEPT ![t] = {}]
    /\ Disturb(t)
    /\ UNCHANGED <<node, run, attempt, row, snap>>

\* The provider finishes a snapshot, one way or the other.
Finish(t, a) ==
    /\ snap[t][a] = "running"
    /\ \E st \in {"ready", "errored"} : snap' = [snap EXCEPT ![t][a] = st]
    /\ UNCHANGED <<node, run, attempt, row, poll, victims, history>>

TaskStep(t) ==
    \/ Send(t) \/ Admit(t) \/ TurnAway(t) \/ SkipDuplicate(t) \/ Initiate(t)
    \/ Request(t) \/ Refuse(t) \/ Record(t) \/ LoseReply(t)
    \/ Hand(t) \/ HandRefused(t) \/ RetryRefused(t) \/ TimeOut(t)

PollStep(t) ==
    \/ PollRead(t) \/ PollAgain(t) \/ PollAgainRefused(t) \/ PollTimeOut(t)
    \/ PollFail(t) \/ PollComplete(t)
    \/ PruneOne(t) \/ PruneAbort(t) \/ PollEnd(t)

Next ==
    \/ \E t \in Task :
         \/ TaskStep(t) \/ PollStep(t)
         \/ Cancel(t) \/ Destroy(t) \/ CrashRun(t) \/ CrashPoll(t)
         \/ \E a \in Attempt : Finish(t, a)
    \/ \E status \in NodeStatus : SetNode(status)

Spec == Init /\ [][Next]_vars

-----------------------------------------------------------------------------
(* Properties.                                                             *)

Untouched == Task \ touched
Undisturbed == Task \ (touched \cup hit)

AtWork(t) ==
    \/ run[t] \in {"initiated", "requested", "handing"}
    \/ run[t] \in {"waiting", "admitted"} /\ attempt[t] > 0

Polled(t) == poll[t] \in {"queued", "asking"}

\* The duplicate-backup guard: whatever crashes, refusals and pauses a node's backups meet,
\* two that no operator touched are never active together.
OneActiveBackup ==
    \A t, u \in Untouched : Active(t) /\ Active(u) => t = u

\* What the guard is for: of the backups that met no fault, one at most has a task at work
\* or waiting, a snapshot the provider is making, or a poll under way.  The guard only
\* reads row statuses; that they cover all of this is the task's and the poll's doing.
OneInFlight ==
    LET Busy(t) == AtWork(t) \/ Polled(t) \/ \E a \in Attempt : snap[t][a] = "running"
    IN  \A t, u \in Undisturbed : Busy(t) /\ Busy(u) => t = u

\* A row that says COMPLETE stands for a finished snapshot that is still at the provider,
\* though the task may have asked for several and other polls delete by their own lists.
CompleteHasSnapshot ==
    \A t \in Untouched : backup[t] = "COMPLETE" => Listed(t) # {}

\* A backup that met no fault and is reported failed or deleted has no snapshot left at the
\* provider, finished or in the making, that nobody would ever delete.
NoForgottenSnapshot ==
    \A t \in Undisturbed :
        backup[t] \in {"FAILED", "MAX_RETRY_FAILED", "DELETE_COMPLETED"} =>
            \A a \in Attempt : snap[t][a] \notin {"running", "ready"}

\* A backup that met no fault and holds the guard has a task or a poll that will settle it:
\* without one the node would never be backed up again.
ActiveHasWork ==
    \A t \in Undisturbed : Active(t) => AtWork(t) \/ Polled(t)

Phase(t) ==
    CASE t \in touched -> "void"
      [] t \notin touched /\ backup[t] = "none" -> "idle"
      [] t \notin touched /\ Active(t) -> "running"
      [] t \notin touched /\ backup[t] = "COMPLETE" -> "stored"
      [] t \notin touched /\ backup[t] \in {"DELETE_COMPLETED", "DELETE_FAILED"} -> "pruned"
      [] OTHER -> "failed"

Promise == INSTANCE BackupPromise WITH
    phase <- [t \in Task |-> Phase(t)],
    age <- born

\* The cloud pipeline keeps the promise the file pipeline keeps: one backup at a time, each
\* settled once, and pruned only while keep_last newer ones of the schedule stay.
ImplementsPromise == Promise!Spec

=============================================================================
