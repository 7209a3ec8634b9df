# BackupSheep in TLA+

A verification development for BackupSheep (`src/`), a Django and Celery
application that backs up websites, databases, SaaS accounts, cloud servers and
volumes to a customer's storage. Paths below are relative to `src/apps/` unless
they start with `src/`.

Contents: 1 the system, 2 the modules and how they correspond to the code,
3 the runs, 4 bounds, 5 fairness, 6 proofs, 7 findings, 8 what is not modelled,
9 the plan.

## 1. The system

The web process writes rows and sends Celery messages; workers on several queues
execute them; the database rows are the only shared state, the local disk that
of the tasks of one node. Messages are acknowledged when they are taken (no
`acks_late`), so a worker that dies loses what it was doing. No process sweeps
stale rows.

| component | state it keeps | operations | talks to |
|---|---|---|---|
| **File backup pipeline** (`_tasks/integration/website.py`, `database.py`, `wordpress.py`, `basecamp.py`; `console/node/models.py`, `console/utils/models.py`) | `CoreNode.status`, the backup row's status, the retry counter in the message | start (schedule or operator), gate, `backup_initiate` with its row lock, validation, dump, retry, time-out, dispatch of the uploads | row lock on the node; Celery chord to the uploads |
| **Uploads, completion, retention** (`_tasks/integration/storage/tasks.py`, `console/backup/models.py`) | one storage row per backup and destination, the remote object, the chord counter, the list of backups to prune | `storage_upload`, `finalize_backup`, `soft_delete` | archive on local disk; backup row; deletion at the destination |
| **Local working files** (`_tasks/helper/tasks.py`, `_tasks/integration/backup/*.py`) | working directory and archive, named after the backup | build, read, `delete_from_disk` on its own queue | dump, uploads and restores, through the file system only |
| **Cloud and volume snapshots** (`_tasks/integration/digitalocean.py` and ten like it, `poll_cloud_backup`) | the row's `action_id` and `unique_id`; the snapshot at the provider; the chain of poll messages | request a snapshot, hand over, poll, complete, fail, time out, prune, delete | the provider's API; the same guard and statuses |
| **Operator actions** (`api/v1/**/views.py`) | `CoreNode.status`, schedule and connection statuses | pause, resume, cancel, delete, retry (same task id), reset of a cache | revocation is a best-effort broadcast |
| **Restores** (`_tasks/integration/restore*.py`) | restore row, fetched archive, extracted files | request, fetch, extract, push or import, sweep | backups, storage, the server |
| **Incremental mirror cache** (`_tasks/integration/backup/website.py`) | cache directory, fingerprint, `flock` | mirror, zip, stamp, reset | dump; operator reset outside the lock |
| **Schedules** (`CoreSchedule`, beat) | schedule row, its PeriodicTask and crontab | create, edit, pause, resume, delete | fires the pipelines |
| **Node, connection, account deletion** (`_tasks/helper/tasks.py`) | delete-requested statuses, deletion task | request, delete backups, schedules, row; retry | running backups, beat entries |
| **Invites and members**, **token refresh**, **storage backends**, **dump engines**, **console** | rows and external calls | forms, I/O | |

What is hard. *Interleaving*: the duplicate guard holds a lock for one query only,
so it protects a whole backup (dump, retries, parallel uploads, callback) by
nothing but the status of a row that many processes write. *Ordering*: sweeps,
uploads, callbacks, restores and retries are on different queues. *Stale copies*: a
task or a request saves all columns of a row it loaded earlier, minutes or hours
before. *Partial failure*: a chord whose member raised never calls back; one
destination fails, another stores; a reply is lost after the provider acted; an
image is deleted and what it was made of is not. *Names*: working files and
snapshots are found again by the name of the backup, by whoever looks. The list
with lines and properties is `hazards` in `PROJECT.json`.

What makes each component correct:

* pipeline: one active backup per node, one dump at a time, every backup settles,
  a settled row is quiet, the guard never wedges the node;
* uploads and retention: the final status agrees with the stored copies;
  retention deletes only beyond `keep_last` and leaves no more than `keep_last`;
* working files: an archive is whole, is there while it is read, and is removed;
* snapshots: one at a time per node, asked for once per backup, COMPLETE means it
  exists, a deletion takes all of it and nothing else, nothing is left at the
  provider that no row leads to;
* restores: COMPLETE means every file was put back, a deleting restore spares what
  is in the backup, every restore settles, the disk is cleared;
* cache: an archive has what its configuration selects and nothing else, the
  fingerprint never vouches for another tree, nobody waits for the lock for ever;
* schedules: the beat entry exists, and is enabled, exactly as the schedule says;
* nodes and their deletion: the status is the one last asked for, a deletion
  happens, and nothing stays stored for what was deleted.

## 2. The modules

| module | what it is |
|---|---|
| `BackupPromise` | abstract specification: phases idle, running, stored, failed, pruned, void; begin, settle, prune, void |
| `FileBackup` | file pipeline, uploads, retention, sweeps, operators, crashes |
| `CloudSnapshot` | a droplet's snapshots: task, poll, retention, operators, crashes, the provider |
| `ProviderSnapshots` | one backup at any of the eleven providers: what is recorded, recognised and deleted |
| `Restore` | the restores of one website or database backup and their working files |
| `IncrementalCache` | the mirror cache of one incremental node |
| `Lifecycle` | a node, its schedule and its beat entry: requests, deletion, and the backups they meet |
| `M_proofs` for each of the last six `M` | its theorems |
| `FileBackup_outcome_proofs`, `FileBackup_retention_proofs` | more of `FileBackup`'s: how a backup ends; retention and the promise |
| `MCM` for each of the last six `M` | instances, symmetry sets and state constraints for TLC |

`FileBackup` and `CloudSnapshot` both implement `BackupPromise`, each under its
own mapping: what an operator may rely on is the same for a website and for a
droplet. The modules meet where the code's parts do. `CloudSnapshot` has the
control that is common to all providers, several backups against one guard, and
the calls of one provider; `ProviderSnapshots` has one backup that passed the
guard, and the calls of all. `FileBackup` takes a dump as one step that may be
torn; `IncrementalCache` has the inside of that step for incremental nodes.
`Lifecycle` keeps of a backup only what a deletion meets, its row and its copy.

A step everywhere is what a process does between two slow operations: a remote
call and the row save after it are one step, unless a property is about the
network between them. `Env` names the operator actions and faults a run includes;
the theorems hold for every `Env`, except where section 6 says otherwise. History
variables are read by no guard, only by properties, and by the mapping to
`BackupPromise` for what is void.

### FileBackup

One node, several tasks (Celery task ids, hence backup rows), several messages
`Run` of a task id (`TaskOf`), several destinations, `Drive` those at Google. State:

* `node`, `gate`: the node's status, and whether schedule, connection and account
  let a backup through; the task reads both once.
* `run[r]`: where the message is: `queued`, `validating` (inside
  `backup_initiate`, after the lock), `connecting`, `dumping`, `dispatched`
  (chord sent, node not yet saved), `waiting` (for its retry), `skipped`, `done`;
  the retry number; whether this attempt's directory was torn by a sweep.
* `backup`, `point`, `copy`: the row's status, the storage rows, the remote objects.
* `up[r][s]`, `chord[r]`, `victims[r]`: upload tasks, chord counter and callback,
  the callback's list of backups to prune.
* `zip`, `onDisk`, `sweeps`: the archive's content, its presence, and the
  `delete_from_disk` messages not yet executed.
* `touched`: a history variable, tasks an operator cancelled, deleted or re-sent.

Actions and code:

* `Send`, `TurnAway`, `SkipDuplicate`, `Initiate`, `AttachStorage`: from
  `run_scheduled_backup` or `take_snapshot` through the gate and `backup_initiate`;
  `Initiate` is what happens under the row lock, `AttachStorage` what follows it,
  with the save of the stale node row.
* `BeginDump`, `FailAttempt`, `TimeOut`, `Dispatch`, `DispatchRefused`, `SaveNode`:
  `create_snapshot` and the task's exception handlers, with the sweeps each queues.
* `PickUp`, `Store`, `Reject`, `RetryUpload`, `BreakUpload`: `storage_upload`.
* `Finalize`, `PruneOne`, `FinishFinalize`: `finalize_backup`, one `soft_delete` a step.
* `Sweep`: `delete_from_disk`.
* `SetNode`, `MoveGate`, `Cancel`, `Destroy`, `Resend`: the API's views.
* `CrashRun`, `CrashUpload`, `CrashFinalize`: a worker dies.

### CloudSnapshot

One node, one message per task (the API has no retry for snapshots). `run`,
`attempt`, `backup`, `born`, `node` as above; `snap[t][a]` is, at the provider,
the snapshot attempt `a` asked for; `action` and `uid` are the columns
`action_id` and `unique_id`; `poll[t]` is the chain of `poll_cloud_backup`
messages; `touched` and `hit` are histories: tasks an operator touched, and tasks
a fault, a pause while they were retrying, or a touched backup got in the way of.

* `Send`, `Admit`, `TurnAway`, `SkipDuplicate`, `Initiate`: as above; `Admit` loads the
  node and `Initiate` saves it.
* `Request`, `Record`, `LoseReply`, `Refuse`: `create_snapshot`, with the network
  between request and record; a retry that finds `action_id` goes straight to `Hand`.
* `Hand`, `HandRefused`, `RetryRefused`, `TimeOut`, `RetryOrGiveUp`: the hand-over and
  the exception handlers.
* `PollRead`, then one of `PollAgain`, `PollAgainRefused`, `PollTimeOut`, `PollFail`,
  `PollComplete`; then `PruneOne`, `PruneAbort`, `PollEnd`: one poll message. The status
  is read before the provider is asked, so a cancel can fall in between.
* `Finish`: the provider. `Cancel`, `Destroy`, `SetNode`, `CrashRun`, `CrashPoll`.

### ProviderSnapshots

`kind` is fixed in `Init`: an integration and node type, `do_cloud`, `do_volume`,
`hetzner`, `upcloud`, `ovh` (its three regions share one control), `vultr`,
`oracle`, `google`, `aws_image`, `aws_volume`, `lightsail`, `rds`; and `do_twin`, a
DigitalOcean volume whose node has another backup with a name that contains this
one's or is contained in it. `task`, `attempt`, `status`, `uid`, `action` are the
task and the row; `snap[a]` the snapshot attempt `a` asked for, `parts` the EBS
snapshots an AWS image leaves; `poll` and `del` the state inside
`poll_cloud_backup` and `soft_delete`, each with the row as it was loaded.

What the providers differ in stands in five operators: `RecordedId` (what
`create_snapshot` stores of a reply), `Requested` (when a retry skips the request),
`Finds` and `Fails` (when `poll_status` says COMPLETE and FAILED, and the id it then
saves), `Target` (what `soft_delete` removes). The actions are the same for all:

* `Initiate`, `Answered`, `ReplyLost`, `Refused`, `RefusedUnseen`, `HandOver`,
  `HandOverRefused`: the task. `Progress`: the provider.
* `PollStop`, `PollAsk`, `PollAskAndDrop`, `PollSettles`, `PollAgain`, `PollGivesUp`:
  one check, and the message that sends the next.
* `DeleteBegin`, then `DeleteDone`, `DeleteTakesTwin`, `DeleteFails` or
  `DeleteReplyLost`; for AWS images `Deregister` and `DeleteParts`; `TwinDeleted`, the
  same method called for the other backup.
* `CrashTask`, `CrashPoll`, `CrashDelete`.

`lost`, `early` and `cut` are histories: attempts whose snapshot was taken and
never reported, a deletion that began before the backup was settled, a deletion
cut short.

### Restore

The restores of one backup, which share the archive and the directory named after
it. `status` and `pc` are each restore's row and task; `left`, `listed`, `pushed`
what it has still to extract, found in the tree, and put on the server; `copy` the
stored copy; `zip`, `writer`, `dir`, `tree` the working files; `sweep`, `wipe` the
`delete_from_disk` it queued, entry by entry; `site` the server; `shared` a
history, restores that met the files or the sweep of another.

* `Request`, `Start`: the view and the head of the task. `FetchBegin`, `FetchEnd`,
  `Extract`, `List`, `Push`, `Finish`: the engine, for websites (lftp mirror, which
  may delete at the end) and databases (an import per dump).
* `Fail`, `BreakDown`: an operation that cannot succeed, and one that does not; both end
  through `Raise`, with the sweep of the finally clause.
* `SweepBegin`, `Wipe`, `SweepEnd`: `delete_from_disk`. `DeleteCopy`, `Crash`.

### IncrementalCache

`config` is what the fingerprint is taken of, `stamp` the fingerprint in
`.meta.json`, `cache` the mirrored paths, `holder` the `flock`; `pc`, `loaded`,
`todo`, `archive` are each run's; `reset` and `doomed` the operator's request;
`strays` the lftp processes without a worker. `Covers` says which paths a configuration
selects, `Clash` which paths of others lie in a path's directory, where `--delete`
reaches them.

* `Begin`, `Enter`, `Mirror`, `Zip`, `Stamp`, `Fail`: `_snapshot_lftp`, from the wait for
  the lock to its release. `Zip` may fail unseen, with part of the cache or nothing in
  the archive: `_finalize_zip` does not look at the exit status, and without a file only
  leaves out the size.
* `Crash`: the worker dies, which a cancel can bring about (`terminate=True`). The system
  drops its `flock`. Its lftp is a child process, which nothing kills and which has not
  inherited the lock: `StrayMirrors`, `StrayEnds`. (A time-out or an exception is no
  such case: `subprocess.run` kills its child then.)
* `Edit`: the node's configuration. `ResetBegin`, `ResetRemove`, `ResetEnd`:
  `reset_incremental`, without the lock.

The properties of archives are stated where the archive has been made (`zipped`): nothing
changes it from there to its upload, and a run that ended keeps no state (`Forget`).

Three histories say what a run met. `torn`: a reset or a stray lftp that could take files
away from under it, or its own zip's failure. `mixed`: since the stamp was written, files
of another configuration came into the cache. `misled`: the run trusted such a stamp, or
shared the cache with another configuration's lftp.

### Lifecycle

`node` and `whole` are the node's row and its website or database row, `sched`,
`link` and `beat` the schedule's row, its reference and the PeriodicTask. A
request `q` has `op[q]`, `at[q]` and the row it holds, `seen[q]` and
`seenLink[q]`; a deletion has `purge`, `doomed` and `tries`; a backup `pc`, `row`,
`upload` and `copies`. Six histories say what was asked for and which races
happened meanwhile.

* `LoadNode`, `SaveNode`, `SendDelete`: pause, resume, edit and delete of a node.
* `LoadSchedule`, `SaveSchedule`, `FetchBeat`, `UpdateBeat`, `CreateBeat`, `LinkBeat`,
  `DestroyBeat`, `DestroyRow`: the schedule's requests, statement by statement.
* `PurgeStart`, `PurgeBackup`, `PurgeBeat`, `PurgeRows`, `PurgeNode`, `PurgeFail`:
  `node_delete_requested`, which is tried again from the start.
* `Fire`, `Gate`, `Initiated`, `Dumped`, `Over`, `DumpFails`, `TimeLimit`, `Cancel`,
  `UploadBegin`, `UploadStore`, `Finalize`: a backup, and where it saves the node.

### Modelled outside `src/`

Celery, lftp, Django's `save` and the providers are modelled from how the code
uses them, and marked external in `PROJECT.json`. Messages are acknowledged early;
a retry keeps the task id and counts up; `self.retry()` raises when the retries are
used up; a chord's callback is sent once every member reports success and never
when one failed or was revoked, and a retry is no report; a revocation is a
broadcast that may come too late, and revoking `None` does nothing. `save` writes
all columns and inserts a row that is gone. Snapshot names are unique at Google,
RDS, Lightsail and for AWS images; an AWS image lists its EBS snapshots once it is
no longer being made; which of two volume snapshots DigitalOcean lists first is
not known.

## 3. The runs

| run | instance | question, and what the answer shows |
|---|---|---|
| `core` | 3 scheduled tasks, 1 destination, keep_last 1, no interference | Do backups run one at a time (`SingleFlight`), settle once, never wedge the node (`ActiveHasWork`), and does retention delete exactly what the schedule no longer keeps (`RetentionApplied`), so that the pipeline keeps its promise (`ImplementsPromise`)? Yes. |
| `operators` | 2 tasks, Google Drive; pause, cancel (revocations that may be late), delete | Does the guard survive (`OneActiveBackup`), is a settled row quiet (`SettledIsQuiet`), and is the promise kept of the backup nobody touched? Yes. |
| `faults` | 1 task, 2 messages; crashes, refused messages, uploads that break, late time limits, exceptions, cancel, delete, pause, gate, re-send | Does the final status agree with what is stored (`CompleteHasCopy`, `UploadFailedMeansNothingStored`), also when two runs share row and files? Yes. |
| `live` | 1 task, 2 destinations, dump and upload retries, fair workers | Does every backup settle (`BackupSettles`) and its archive leave the disk (`DiskReclaimed`)? Yes. |
| `cloud` | 2 scheduled tasks, 1 retry, every operator action and fault | The guard, at most one snapshot in flight, COMPLETE has its snapshot, nothing forgotten at the provider, an active row has work, and the same promise. Yes, with the exceptions for touched and hit tasks each property names. |
| `providers` | 1 backup of each of 13 kinds, 1 retry, 2 checks, every fault, deletion at any time | Do the three methods of each provider mean the same snapshot: what is COMPLETE is real and, but for some droplets, can be deleted by its id (`CompleteIsReal`), is asked for once (`NoSecondSnapshot`), deleted whole (`DeletedIsGone`), never out of reach (`StaysReachable`), and is polling bounded (`ChecksEnd`)? Yes, with the exceptions each names. |
| `restore` | 2 restores of a website, 2 files, one deleting; failing transfers, a deleted copy, refused messages, crashes | Is what a restore does alone right (`CompleteMeansRestored`, `DeleteSparesTheBackup`), is the disk cleared (`LeftoversHaveSweeper`), and does each end although they disturb each other (`RestoreSettles`)? Yes. |
| `cache` | 3 runs, 3 paths, 2 configurations of which each removes the other's files; failures, crashes that leave an lftp behind, zips that fail, edits, a reset | Does an archive have what its configuration selects (`NoGaps`) and nothing else (`NoLeftovers`), does the stamp tell what the cache holds (`StampTellsCache`), and does every run that waits get the lock (`WaitingRunEnds`)? Yes, except for a run that a reset, a stray lftp or the failure of its own zip went through, and for one pattern of edits, which the properties name. |
| `lifecycle` | any 2 requests of nine kinds, 1 backup, 1 retry of a deletion, every fault | Is the node's status the one last asked for (`StatusIsLastAsked`), does the beat entry follow the schedule (`BeatFollowsRow`), does a deletion happen (`DeletionHappens`) and what does it leave (`DeletedLeavesOnlyLate`)? Yes, with the races named. |
| `refused` | 2 tasks, pause, 1 retry | Refutes: the guard refuses only while a backup is in flight. |
| `torn` | 1 task, 1 retry | Refutes: no silent partial backup. |
| `twin` | a volume whose node has a twin, no faults | Refutes: retention keeps the newest backups, their snapshots with them. |

Many properties have an exception, a history variable that says which race was
met. They are there because the code has no protection against that race; what the
property then shows is that the race named is the only way to break it. The
histories are as narrow as the checks allow: `raced` in `StatusIsLastAsked`, for
example, asks who held the node's row at the moment of the request, not whether
anything else happened.

Every property has a mutant in `PROJECT.json`, a plausible bug in one mapped
definition (a status missing from `ACTIVE_STATUSES`, `completed[:-keep_last]` off
by one, a row settled while its retry waits, a missing `flock`, a stamp not looked
at, an image reported deleted when it is deregistered, a poll that does not
re-queue) under which its run fails. The mutated forms stand in the modules next to
the definitions they replace, marked "Mutant".

`CHECK_DEADLOCK FALSE` is in every configuration: the system stops when all
messages are consumed. That it does not stop with an active row is `ActiveHasWork`,
`BackupSettles`, `RestoreSettles`, `WaitingRunEnds` and `ChecksEnd`.

## 4. Bounds

* Tasks: two show every conflict of the guard; three are needed for retention, so
  that one callback prunes while another completes with `keep_last` 1.
* `MaxRetries` of a backup, 0 or 1, stands for the code's 4: one retry has the row
  RETRYING, the message waiting, and the last attempt; two add nothing the guard could
  tell apart. `core` has none: that two dumps never meet with retries under way
  (`SingleFlight`) rests on the theorem. In `providers` one retry means that two
  snapshots may be taken, one of them unknown; with two retries (1.4 million states) the
  answers are the same. `MaxUploadRetries` likewise stands for `storage_upload`'s 96,
  `MaxTries` for the deletion task's, `MaxChecks` 2 for 24 hours of polls: a first
  check, one between, and a last one.
* Destinations: one where tasks interact, two in `live`, where it matters that one
  fails while the other stores.
* `OneTaskSwept` (state constraint): sweeps are pending for one task at a time; a
  sweep reads and writes nothing of another task's. `FewTouched`: one task at most
  is touched, since nothing is promised of touched tasks and each property needs an
  untouched one left; at most two sweeps of a kind, since an operator may cancel
  for ever (`OneSweepEach`: one in `operators`, where a backup dumps once). The
  violation runs, `live` and the four later modules have no constraint.
* Symmetry: tasks are interchangeable when all are scheduled (`TasksAlike` moves
  their messages along). Runs that check liveness use none.
* Restores: two, of which one deletes, meet in every way a third could; two files,
  one restored or swept while the other is not yet. Databases have the same control
  without deletion and are left to the theorems.
* Cache: three runs, since the one pattern the stamp does not catch takes a stamp, a
  run of another configuration that fails or leaves its lftp behind, and a run that
  trusts the stamp. One configuration selects two paths, so that a mirror can break off
  between them; the other one path, of another server, in the directory of the first of
  them: each mirror with `--delete` removes what the other brought.
* Lifecycle: two requests are every pair of operators; the initial states have a
  schedule or none. One backup, since backups meet one another in `FileBackup`.
* `Resend` allows one extra message per task; `born` counts row creation and is
  bounded by the number of tasks.

The theorems need none of these bounds.

## 5. Fairness

Each `FairSpec` has weak fairness for what a worker does with a message it has, or
will take from its queue: workers are restarted by the process manager and consume
their queues (queue routing in `src/backupsheep/settings.py`), and every remote call
ends, by answer, error or time-out. Weak fairness is enough as such a step, once
enabled, stays enabled until taken. Nothing obliges anyone to start a backup or a
request, and neither operators nor faults are fair: a call that always fails is
settled by its retry limit, so no fairness towards success is assumed.

* `FileBackup` (`live`): each message's run, callback, upload and sweep.
* `Restore` (`restore`): each restore's task and sweep.
* `IncrementalCache` (`cache`): each run, the wait for a free lock included; lftp
  and zip have time-outs. Weak fairness is enough for the lock too, as each other run
  takes it once. An lftp without its worker is not fair: it may stay for ever.
* `Lifecycle` (`lifecycle`): the deletion task. Requests are not fair: a request
  may stop half way for ever, and `DeletionHappens` does not depend on it.
* `ProviderSnapshots` (`providers`): the task takes its message, its request is
  answered or refused, it hands over, and a poll asks and gets an answer; not that the
  provider ever finishes, which `ChecksEnd` does not need.

`cloud` checks safety only. A poll re-queues itself until the provider answers or
24 hours pass; that it is never without a message is `ActiveHasWork`.

## 6. Proofs

For any sets of tasks, messages, destinations, restores, files, runs, paths,
configurations and requests, any retry limits, any `keep_last` and any kinds.
Assumed are the named assumptions on the constants that each module declares, which
every run evaluates: finite sets where something is counted, naturals as bounds, ids
that are no attempts. Any choice of faults and operators, but for the theorems that
name those they exclude (below).

| module | theorems |
|---|---|
| `FileBackup_proofs` | `TypeCorrect`, `GuardHolds`, `OneActiveBackupHolds`, `SingleFlightHolds` |
| `FileBackup_outcome_proofs` | `CompletesHaveCopies` (`CompleteHasCopy`), `FailedStoreNothing` (`UploadFailedMeansNothingStored`), `SettledsAreQuiet` (`SettledIsQuiet`), `ActivesHaveWork` (`ActiveHasWork`), `GuardRefusesRightly` (`GuardRefusesOnlyInFlight`), `FirstAttemptsAreWhole`, `ArchivesAreSwept` |
| `FileBackup_retention_proofs` | `RetentionIsApplied` (`RetentionApplied`), `PrunedStayOutnumbered`, `PipelineKeepsPromise` (`ImplementsPromise`) |
| `CloudSnapshot_proofs` | `TypeCorrect`, `GuardHolds` (`OneActiveBackup`), `OneInFlightHolds`, `CompletesAreKept` (`CompleteHasSnapshot`), `NothingIsForgotten` (`NoForgottenSnapshot`), `ActivesHaveWork` (`ActiveHasWork`), `PrunedStayOutnumbered`, `PipelineKeepsPromise` (`ImplementsPromise`) |
| `ProviderSnapshots_proofs` | `TypeCorrect`, `OneSnapshotEach` (`NoSecondSnapshot`), `CompleteCanBeDeleted` (`CompleteIsReal`), `DeletionIsWhole` (`DeletedIsGone`), `SnapshotsStayReachable` (`StaysReachable`) |
| `Restore_proofs` | `TypeCorrect`, `RestoresAreWhole` (`CompleteMeansRestored`), `DeletionSpares` (`DeleteSparesTheBackup`), `LeftoversAreSwept` (`LeftoversHaveSweeper`) |
| `IncrementalCache_proofs` | `TypeCorrect`, `ArchivesAreComplete` (`NoGaps`), `ArchivesAreExact` (`NoLeftovers`), `StampsAreTrue` (`StampTellsCache`) |
| `Lifecycle_proofs` | `TypeCorrect`, `StatusSurvives` (`StatusIsLastAsked`), `DeletionClearsStorage` (`DeletedLeavesOnlyLate`), `BeatAgrees` (`BeatFollowsRow`) |

Every safety property that a passing run checks is stated by a theorem, both
refinements included. Seven theorems exclude faults, each because its property is
false with them:

* `SettledsAreQuiet`, `PipelineKeepsPromise` and `PrunedStayOutnumbered` of
  `FileBackup`: no soft time limit between sending the chord and saving the node
  (`"latelimit" \notin Env`), which says TIMEOUT of a backup whose uploads run
  and which `finalize_backup` then settles a second time, or of a newer backup that is
  complete and was counted when an older one was pruned.
* `RetentionIsApplied`: `finalize_backup` neither dies nor raises before it has
  pruned; what it leaves is pruned by the schedule's next completion only.
* `ActivesHaveWork` and `GuardRefusesRightly`: `Harmless`, that is no operators,
  no crashes, no broken uploads and no swallowed refusal by the broker; an exception
  in `finalize_backup`, the late time limit and a refusal that is noticed are allowed.
  Each excluded one leaves an active row without work. `GuardRefusesRightly` is the
  positive side of finding 1: the comment's promise holds until one of them occurs.
* `ArchivesAreSwept`, the safe half of `DiskReclaimed`: `Tidy`, that is no crash, no
  upload that raises and no refused chord. An archive on disk then has a sweep pending
  or a `finalize_backup` to come, under every operator; after one of these faults
  nothing else asks for the sweep.

`FirstAttemptsAreWhole`, with every fault and operator, is the positive side of
finding 2: of a backup that no operator touched, only a retry makes a torn archive.

None of the safety properties is inductive; what has to be added is, each time,
what the code keeps true without saying so.

* `FileBackup`: the guard reads rows, and a run that is dumping under an inactive row
  could write an active status at any moment. `GuardInv` adds: an untouched run at
  work or waiting to retry has an active row (`WorkIsActive`); an untouched task has
  one message (`OneRun`); a run whose chord was sent never dumps again
  (`ChordAfterWork`); uploads belong to a chord (`UploadIsChorded`); a row that is
  COMPLETE, or listed for pruning, had its chord (`CompleteIsChorded`,
  `VictimsAreChorded`), so that pruning cannot take the row of a run still at work.
  `GuardRespected` says what a step may do to these facts, `GuardStep` that a step which
  respects them preserves the invariant, `StepGuardRespected` that every action does.
* `FileBackup`, outcomes: `OutcomeInv` ties the storage rows to the remote objects
  while uploads run, and a settled row to both; that a live upload has an open chord
  (`LiveIsOpen`) is what keeps the tally from being taken too early. Over it,
  `ChordIsActive` (an open or queued chord has an active row) gives the quiet of
  settled rows; `WorkInv` adds, without operators and crashes (`Calm`), that an open
  chord has a live upload and an active row a message at work or a chord. `TornInv`
  says that a pending sweep of a directory stems from an attempt that is over, so that
  whatever it tears under a dump, the archive of that dump and the copies of that
  archive belong to a retry; `ArchiveHasSweeper`, that a chord with no failed upload
  does call back (`WillFinalize`), and that a cancel which breaks one asks for the sweep
  itself. Every action is classed once by what it can do (`Aside`, `Turn`,
  `MessageMoves`); the invariants are then preserved class by class.
* `FileBackup`, retention and promise: `RowInv` says that the row exists of whatever is at
  work, and `RowStep` what a step can do to rows and lists of victims: nothing, begin,
  go on or end (`Works`), be touched (`Voids`), be finalized, pruned, or have its list
  dropped. `RetentionInv` counts: the complete backups of the schedule that no list of
  victims names are at most `keep_last`. That is no matter of one step, since a
  completion makes its list from the rows while other lists are still being worked off;
  it needs that creation order has no ties among rows (`BornInOrder`) and that the
  newest complete ones are `keep_last` at most (`NewestAreFew`). `PruneInv` keeps, for
  what is on a list or pruned, that at least `keep_last` newer backups of the schedule
  are complete or touched (`Outnumbered`): pruning goes oldest first, and who is pruned
  later leaves as many behind.
* The promise: `PhaseFacts` reads the phases off the rows, and `PromiseStep` maps each
  kind of step to begin, settle, prune, void or a stutter; the guard of `prune`, that
  enough newer backups are stored or void, is `Outnumbered`. The same argument serves
  both pipelines. In `CloudSnapshot` it needs no hypothesis on faults:
  its time limit cannot strike once the poll has the backup.
* `CloudSnapshot`: `CloudInv` says of each task (`Good`) that its run, poll and row are
  in order, that work, a poll, or a snapshot in the making goes with an active row, that
  recorded snapshots are its own and deleted rows are over; and of the lists of
  victims that they hold stored backups only (`VictimsAreStored`).
* `ProviderSnapshots`: `ProviderInv` orders task and poll (`TaskInOrder`), says which
  ids a row, a poll's copy of it and a deletion's copy can hold (`NamesInOrder`: that of a
  droplet stays empty until its poll has ended), and,
  until an early deletion, that one process at a time writes the row (`OneWriter`)
  and that what it recorded is the snapshot taken (`Recorded`).
* `Restore`: `AloneInv` follows a restore that met no other through its phases (its
  archive is whole, the tree and what is left to extract make up the backup, what is
  listed is everything); `FilesInv` gives every working file a restore at work or a
  sweep that has not passed it by (`HandledBy`).
* `IncrementalCache`: `CacheInv` has the exclusion of the lock (`Locked`), that whoever
  may remove files under a run tears it (`RemovalsTear`) and a stray lftp of another
  configuration misleads it (`StraysMislead`); for each run not torn that what is
  mirrored and what is still to do make up the selection (`Complete`), for each not
  misled that nothing else is there (`Exact`); and that the stamp of the run inside
  stays true while it works (`StampHolds`), since it may leave without a new one. That
  a run's own mirror removes nothing it has mirrored is the assumption on `Clash`
  (`NoClash`): the paths of one configuration come from one server with one filter.
* `Lifecycle`: `StatusInv` says who may still write another status and that the history
  knows of it; `CopiesInv` that copies have rows, that a deletion's list covers them
  and that a re-inserted node stays broken; `BeatInv` which statements of a request lie
  between row and entry (`HalfWay`), and that outside them the two agree (`Agreement`).

Each proof has one lemma per action or group of actions alike in what they touch,
and a step lemma that puts them together; the last step of every theorem is
temporal.

Only model-checked: liveness (`BackupSettles`, `DiskReclaimed`, `RestoreSettles`,
`WaitingRunEnds`, `DeletionHappens`, `ChecksEnd`), which rests on fairness and
ENABLED, out of the proof system's reach. The violations (section 7) are
counterexamples of TLC's.

## 7. Findings

With a run:

1. `refused`: a backup that waits to retry when its node is paused is turned away
   by the gate, which has no else branch. Its row stays RETRYING with no message
   left, and after the resume the guard skips every further backup.
2. `torn`: the `delete_from_disk` of a failed attempt waits on another queue and
   removes a directory named after the backup. When it runs late it takes files of
   the next attempt, whose archive becomes a COMPLETE backup.
3. `twin`: `soft_delete` of a DigitalOcean volume's backup takes the first snapshot
   whose name contains the backup's own (`console/backup/models.py:275`), and the name
   of backup 1 is contained in those of backups 10 to 19. Retention that deletes
   the old one may delete a newer one's snapshot and leave its own.

Met while modelling, named as exceptions of properties and not run on their own:

4. A Google Drive copy that was deleted leaves its storage row UPLOAD_COMPLETE
   (`console/backup/models.py:2222`). A backup deleted between its upload and
   `finalize_backup` then becomes COMPLETE with no copy (`Drive`, excepted by
   `CompleteHasCopy`).
5. A volume's `poll_status` returns COMPLETE without asking
   (`console/backup/models.py:213`), after refusals `create_snapshot` ignores
   (`console/node/models.py:159`): `CompleteIsReal` is not claimed of volumes.
6. A node's deletion says it deletes "all the backups of this node"
   (`src/apps/console/_templates/console/node/detail.html`, lines 1606 to 1608). It
   leaves the copies of backups in flight and those whose deletion failed, which
   after the cascade no row names. `DeletedLeavesOnlyLate` says exactly this.
7. Two restores of one backup share archive and directory (`shared`), and one that
   deletes can remove files of the backup from the server meanwhile.
8. `IncrementalCache`. A stamp survives a failed run of another configuration (`misled`); a
   reset goes through a running backup (`torn`). The flock is said to serialize "the
   whole mirror+zip" (`_tasks/integration/backup/website.py`, lines 10 and 11): it does
   so for workers, not for an lftp that outlives one, which writes and deletes in the
   cache under the next run (`strays`). The cache is said to be stamped "only ... after a
   successful mirror+zip" (lines 490 and 491): the exit status of zip is not looked at
   (line 277), and a run whose zip failed stamps the cache and uploads what archive
   there is.
9. Overlapping requests on a schedule, or one that fails half way, can leave a
   beat entry that disagrees with the row, or that no row names (`crossed`).
10. A droplet's poll returns COMPLETE whether its snapshot is in the list or not
   (`console/backup/models.py`, lines 196 to 202). When it is not, the row has no
   `unique_id` and soft_delete finds nothing (`hidden`, in both modules of snapshots).

## 8. Not modelled, and why

Parts left out:

* Restores of cloud snapshots (`restore_backup`, `poll_cloud_restore`): one request
  and a poll with the control of `ProviderSnapshots`, where the provider does the work.
* `delete_requested_integrations`, `account_delete`, `delete_requested_storages`: no beat
  entry and no view sends them; the API refuses to delete a connection with nodes.
* One-time schedules, which beat disables after they fired, and crontab rows, which
  are shared and never deleted.
* Node types the program does not back up (volumes at Hetzner, servers at UpCloud) and
  the cancel methods of each provider, copies of the one in `CloudSnapshot`.
* Invites and memberships, token refresh, console, serializers, notifications, logs:
  forms and I/O around single rows, with no state the properties are about.
* Most of the implementation is repetition. Thirty storage backends, six dump
  engines, the other task files of each integration, migrations and views translate
  to no definition of their own: they are one action with its outcomes, mapped at one
  of its copies. The share of lines the map names stays small for that reason.

Hazards that no property covers, with the reason, are the entries of `hazards` in
`PROJECT.json` that carry a note: nothing revives a row whose worker died
(`console/node/models.py:2381`, `_tasks/helper/tasks.py:176`); a backup sent again
after its end uploads nothing (`console/node/models.py:2386`); refusals a volume's
request ignores (`console/node/models.py:159`); psql without ON_ERROR_STOP
(`_tasks/integration/restore_database.py:309`). In the first four the code does not
promise what a property would say; the last is below the grain of `Restore`.

Abstractions:

* Database statements do not fail, except in `Lifecycle`, and a row save follows its
  remote call at once: an object stored whose row save failed is left out.
* `FileBackup`: a retry whose message the broker refuses (it is in `CloudSnapshot`:
  the row stays RETRYING, as after a crash); the saves of two concurrent uploads of
  one storage row, possible only after a re-send; local storage's `no_delete`;
  revoked ids remembered by workers for a later message; a node row save that fails
  after the chord was sent. A soft time limit that strikes inside a dump is caught
  there as a failed attempt; it is `FailAttempt`. A destination that was
  deactivated, or does not validate, is one not attached.
* Storage adapters beyond their outcomes. Some have outcomes of their own that
  `storage_upload` does not foresee: pCloud has no branch for a missing file, and a
  reply without a file id leaves its row UPLOAD_IN_PROGRESS; OneDrive accepts 200
  only and ignores replies to deletes; a quota at Google Drive is not raised as such,
  and each retry there makes a new file; the branch for S3UploadFailedError is dead;
  adapters catch SoftTimeLimitExceeded. For the final status each counts as
  rejected, failed or stored.
* `CloudSnapshot`: the schedule's part of the gate (as in `FileBackup`), the pages of
  the provider's list (a new snapshot is listed or not), and the DELETE request
  statuses of account deletion. The provider never loses a finished snapshot of its
  own accord.
* `ProviderSnapshots`: one backup, past the guard. Cancels and a poll whose re-queue is
  refused are in `CloudSnapshot`. A Hetzner reply whose action no longer runs raises:
  it is `ReplyLost`.
* `Restore`: files are whole or absent; a file extracted twice is present throughout.
  The engines run on the queues `files` and `database`, their sweeps on `storage`
  (`src/backupsheep/settings.py`, lines 586 to 598), hence at any later time.
* `IncrementalCache`: one reset; content of a mirrored path is right, as lftp compares
  each file with the server's, which do not change meanwhile. The removal of the cache
  with its node is not a step. Archives are each run's own: that `zip -r` would add to
  one an earlier attempt of the same backup left behind is not in the model.
* An lftp that outlives its worker is a step of `IncrementalCache` only, where the next
  run uses its directory. That of a full mirror writes the same files into a directory
  named after one backup, and one that restores has its tree to itself unless restores
  overlap, which `Restore` excepts.
* `Lifecycle`: one node, one schedule, one storage; gate and guard of a backup are one
  step, as is a cancel; an entry made again under the same name counts as the same.

## 9. The plan

Done, in this order: `BackupPromise` and `FileBackup`; `FileBackup_proofs` with types
and guard; `CloudSnapshot`, the second implementation of the promise;
`CloudSnapshot_proofs`; `IncrementalCache`, `Lifecycle` (node deletion, schedules and
beat entries), `Restore` and `ProviderSnapshots`, each with its proofs; the outcomes and
the retention of `FileBackup` and the refinement of `BackupPromise` by both pipelines as
theorems.

Left, in the order of what it would add:

1. A composition of `Lifecycle` with `CloudSnapshot`: a node deleted while a poll
   holds its snapshot.
2. `poll_cloud_restore` in the frame of `ProviderSnapshots`.
