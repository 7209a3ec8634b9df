--------------------------- MODULE ProviderSnapshots ---------------------------
(***************************************************************************)
(* One backup of one cloud node, at each provider the program knows: what  *)
(* the provider's create_snapshot records of the snapshot it asked for,    *)
(* how its poll_status recognises that snapshot, and which snapshot its    *)
(* soft_delete removes.  The providers differ in exactly this, and must    *)
(* agree with themselves: an id or a name recorded by one method is what   *)
(* the other two look for, after retries, lost replies and failed          *)
(* deletions.                                                              *)
(*                                                                         *)
(* CloudSnapshot has what is common to them: the gate, the duplicate       *)
(* guard, cancellation and retention among several backups.  Here a backup *)
(* has passed the guard, and retention is one of those who delete it.      *)
(***************************************************************************)
EXTENDS Naturals

CONSTANTS
    Kinds,       \* the kinds of node the behaviours include
    MaxRetries,  \* retries of the task (4 in the code)
    MaxChecks,   \* status checks before the poll gives up (24 hours of them in the code)
    None,        \* no id recorded
    ByName,      \* the id recorded is the backup's own name
    Env          \* which operator actions and faults the behaviours include

\* Of a volume of DigitalOcean "do_twin" is the case that its node has another backup whose
\* name contains this one's, or is contained in it: names end in the row's number, and that
\* of backup 1 is part of that of backup 12.
Volumes == {"do_volume", "do_twin"}
AllKinds == Volumes \cup {"do_cloud", "hetzner", "upcloud", "ovh", "vultr", "oracle",
                          "google", "aws_image", "aws_volume", "lightsail", "rds"}

EnvKinds == {"destroy",  \* an operator deletes the backup, whatever its status
             "lost",     \* the provider acts, and its reply does not arrive
             "hidden",   \* the provider's list misses a new snapshot
             "refuse",   \* the provider refuses a request
             "error",    \* the provider fails to make the snapshot
             "broker",   \* the broker refuses the first poll
             "crash"}    \* a process dies

Attempt == 0..MaxRetries
Ref == Attempt \cup {None, ByName}

ASSUME ProviderAssumption ==
    /\ Kinds \subseteq AllKinds
    /\ MaxRetries \in Nat
    /\ MaxChecks \in Nat
    /\ None \notin Attempt
    /\ ByName \notin Attempt
    /\ None # ByName
    /\ Env \subseteq EnvKinds

VARIABLES
    kind,     \* the integration and type of the node
    task,     \* the Celery task of the backup
    attempt,  \* its retries so far
    status,   \* UtilBackup.status of the row
    uid,      \* the row's unique_id: an attempt's snapshot, the backup's name, or nothing
    action,   \* the row's action_id: the attempt it belongs to, or None
    snap,     \* at the provider: the snapshot each attempt asked for
    parts,    \* at AWS: attempts whose image has left EBS snapshots in the account
    poll,     \* poll_cloud_backup: where it is, its answer, and the row's id as it will save it
    checks,   \* how often it has asked
    del,      \* soft_delete: where it is, the row's id as it was loaded, what it has yet to remove
    lost,     \* history: attempts whose snapshot was taken and never reported
    early,    \* history: a deletion began before the backup was settled or its snapshot ended
    cut       \* history: a deletion was cut short

vars == <<kind, task, attempt, status, uid, action, snap, parts, poll, checks, del,
          lost, early, cut>>
row == <<status, uid, action>>
provider == <<snap, parts>>
history == <<lost, early, cut>>

-----------------------------------------------------------------------------

ActiveStatus == {"IN_PROGRESS", "RETRYING"}
BackupStatus == ActiveStatus \cup {"none", "COMPLETE", "FAILED", "TIMEOUT", "MAX_RETRY_FAILED",
                                   "DELETE_COMPLETED", "DELETE_FAILED",
                                   "DELETE_FAILED_NOT_FOUND"}
PollStops == {"COMPLETE", "FAILED", "TIMEOUT", "DELETE_COMPLETED"}
Answer == {"COMPLETE", "FAILED", "IN_PROGRESS"}
TaskState == {"queued", "requesting", "handing", "waiting", "done", "dead"}
PollRecord == [pc : {"none", "queued", "asking", "done", "dead"}, answer : Answer, uid : Ref]
DeleteRecord == [pc : {"none", "asking", "resting"}, uid : Ref, todo : SUBSET Attempt]
SnapState == {"none", "running", "ready", "errored", "gone"}

TypeOK ==
    /\ kind \in Kinds
    /\ task \in TaskState
    /\ attempt \in Attempt
    /\ status \in BackupStatus
    /\ uid \in Ref
    /\ action \in Attempt \cup {None}
    /\ snap \in [Attempt -> SnapState]
    /\ parts \in SUBSET Attempt
    /\ poll \in PollRecord
    /\ checks \in 0..MaxChecks
    /\ del \in DeleteRecord
    /\ lost \in SUBSET Attempt
    /\ early \in BOOLEAN
    /\ cut \in BOOLEAN

Init ==
    /\ kind \in Kinds
    /\ task = "queued"
    /\ attempt = 0
    /\ status = "none"
    /\ uid = None
    /\ action = None
    /\ snap = [a \in Attempt |-> "none"]
    /\ parts = {}
    /\ poll = [pc |-> "none", answer |-> "IN_PROGRESS", uid |-> None]
    /\ checks = 0
    /\ del = [pc |-> "none", uid |-> None, todo |-> {}]
    /\ lost = {}
    /\ early = FALSE
    /\ cut = FALSE

Made == {a \in Attempt : snap[a] # "none"}
Live == {a \in Attempt : snap[a] \in {"running", "ready", "errored"}}
Ready == {a \in Attempt : snap[a] = "ready"}

-----------------------------------------------------------------------------
(* The providers.                                                          *)

\* External: the name is the snapshot's key, and a second request with it is refused.
NameIsKey == {"google", "rds", "lightsail", "aws_image"}
Clash == kind \in NameIsKey /\ Live # {}

\* The attempt whose snapshot a request returns.  Oracle's opc_retry_token is the backup's
\* name, for every attempt: a repeated request returns what the first one made.
Granted == IF kind = "oracle" /\ Made # {} THEN Made ELSE {attempt}

\* What create_snapshot records of it.  OVH, Lightsail and RDS are given the backup's name;
\* a droplet's id is not known before its action ends.
RecordsName == {"ovh", "lightsail", "rds"}
RecordsAction == {"do_cloud", "hetzner"}
RecordedId(a) ==
    IF kind \in RecordsName THEN ByName
    ELSE IF kind = "do_cloud" THEN uid ELSE a

\* Mutant: a task that could not hand over asks again.
NotRequested == FALSE

\* The task asks again only while nothing is recorded of an earlier request.
Requested == IF kind = "do_cloud" THEN action # None ELSE uid # None

\* Volumes of DigitalOcean and everything of Google are deleted by the backup's name,
\* whatever the row says; a snapshot of RDS or Lightsail by the name the row says.
NamedBy(id) ==
    \/ kind \in Volumes \cup {"google"}
    \/ kind \in {"rds", "lightsail"} /\ id = ByName

\* Mutant: an image of Hetzner is deleted by its id only.
TargetById(id) == {a \in Live : a = id \/ NamedBy(id)}

\* The snapshots soft_delete may remove when the row it loaded has this id.  An image of
\* Hetzner is looked up by name when the row has none.
Target(id) ==
    {a \in Live :
        \/ a = id
        \/ NamedBy(id)
        \/ kind = "hetzner" /\ id = None /\ snap[a] = "ready"}

\* poll_status may report COMPLETE, and save the id new, when the row it loaded has the id
\* given.  A droplet is looked up by name once its action has ended, and is complete whether it
\* is found or not; a volume of DigitalOcean is not asked about; the id OVH gives replaces the
\* name.
Finds(id, new) ==
    \/ /\ kind = "do_cloud" /\ action # None /\ snap[action] \in {"ready", "gone"}
       /\ new \in Ready \/ (new = id /\ (Ready = {} \/ "hidden" \in Env))
    \/ kind \in Volumes /\ new = id
    \/ kind = "ovh" /\ id = ByName /\ new \in Ready
    \/ kind \in {"google", "rds"} /\ Ready # {} /\ new = id
    \/ kind = "lightsail" /\ id = ByName /\ Ready # {} /\ new = id
    \/ /\ kind \in {"hetzner", "upcloud", "vultr", "oracle", "aws_image", "aws_volume"}
       /\ id \in Ready /\ new = id

\* poll_status may report FAILED.  OVH and Vultr report no failure; Oracle reports a deleted
\* backup as terminated, for a while.
Fails(id) ==
    \/ kind \in {"do_cloud", "hetzner"} /\ action # None /\ snap[action] = "errored"
    \/ /\ kind \in {"upcloud", "oracle", "aws_image", "aws_volume"} /\ id \in Made
       /\ snap[id] = "errored" \/ (kind = "oracle" /\ snap[id] = "gone")
    \/ /\ kind \in {"google", "rds"} \/ (kind = "lightsail" /\ id = ByName)
       /\ \E a \in Made : snap[a] = "errored"

-----------------------------------------------------------------------------
(* The task: create_snapshot and the hand-over.                            *)

\* backup_initiate takes the row over, and create_snapshot is called unless it was before.
Initiate ==
    /\ task \in {"queued", "waiting"}
    /\ attempt' = IF task = "queued" THEN 0 ELSE attempt + 1
    /\ task' = IF Requested THEN "handing" ELSE "requesting"
    /\ status' = "IN_PROGRESS"
    /\ UNCHANGED <<kind, uid, action, provider, poll, checks, del, history>>

\* Whatever goes wrong in the task, it retries or gives up.
Fail ==
    /\ status' = IF attempt < MaxRetries THEN "RETRYING" ELSE "MAX_RETRY_FAILED"
    /\ task' = IF attempt < MaxRetries THEN "waiting" ELSE "done"
    /\ UNCHANGED <<uid, action>>

Take(a) ==
    /\ snap' = [snap EXCEPT ![a] = IF @ = "none" THEN "running" ELSE @]
    /\ parts' = IF kind = "aws_image" THEN parts \cup {a} ELSE parts

\* The provider takes a snapshot and says which; the whole row is saved with it.
Answered ==
    /\ task = "requesting"
    /\ ~ Clash
    /\ \E a \in Granted :
          /\ Take(a)
          /\ uid' = RecordedId(a)
          /\ action' = IF kind \in RecordsAction THEN a ELSE action
          /\ lost' = lost \ {a}
    /\ status' = "IN_PROGRESS"
    /\ task' = "handing"
    /\ UNCHANGED <<kind, attempt, poll, checks, del, early, cut>>

\* The snapshot is taken, and the task sees an exception.
ReplyLost ==
    /\ "lost" \in Env
    /\ task = "requesting"
    /\ ~ Clash
    /\ \E a \in Granted : Take(a) /\ lost' = lost \cup {a}
    /\ Fail
    /\ UNCHANGED <<kind, attempt, poll, checks, del, early, cut>>

Refused ==
    /\ task = "requesting"
    /\ Clash \/ "refuse" \in Env
    /\ Fail
    /\ UNCHANGED <<kind, attempt, provider, poll, checks, del, history>>

\* Two integrations take some refusals for success: create_snapshot of a volume of
\* DigitalOcean knows three error codes, that of Lightsail ignores a failed operation.
RefusedUnseen ==
    /\ "refuse" \in Env
    /\ task = "requesting"
    /\ kind \in Volumes \cup {"lightsail"}
    /\ task' = "handing"
    /\ UNCHANGED <<kind, attempt, row, provider, poll, checks, del, history>>

HandOver ==
    /\ task = "handing"
    /\ task' = "done"
    /\ poll' = [poll EXCEPT !.pc = "queued"]
    /\ UNCHANGED <<kind, attempt, row, provider, checks, del, history>>

HandOverRefused ==
    /\ "broker" \in Env
    /\ task = "handing"
    /\ Fail
    /\ UNCHANGED <<kind, attempt, provider, poll, checks, del, history>>

-----------------------------------------------------------------------------
(* The provider at work.                                                   *)

Progress(a) ==
    /\ snap[a] = "running"
    /\ \/ snap' = [snap EXCEPT ![a] = "ready"]
       \/ "error" \in Env /\ snap' = [snap EXCEPT ![a] = "errored"]
    /\ UNCHANGED <<kind, task, attempt, row, parts, poll, checks, del, history>>

-----------------------------------------------------------------------------
(* The poll.                                                               *)

PollStop ==
    /\ poll.pc = "queued"
    /\ status \in PollStops
    /\ poll' = [poll EXCEPT !.pc = "done"]
    /\ UNCHANGED <<kind, task, attempt, row, provider, checks, del, history>>

Asks(answer, new) ==
    /\ poll.pc = "queued"
    /\ status \notin PollStops
    /\ poll' = [pc |-> "asking", answer |-> answer, uid |-> new]
    /\ UNCHANGED <<kind, task, attempt, row, parts, checks, del, history>>

DropsFailed == kind \in {"aws_image", "aws_volume"}

\* The row is loaded and the provider asked.  Any check may fail on the way, and then the
\* backup is in progress.
PollAsk ==
    \/ Asks("IN_PROGRESS", uid) /\ UNCHANGED snap
    \/ \E new \in Ref : Finds(uid, new) /\ Asks("COMPLETE", new) /\ UNCHANGED snap
    \/ Fails(uid) /\ ~ DropsFailed /\ Asks("FAILED", uid) /\ UNCHANGED snap

\* AWS is told to drop what failed before the failure is reported.  When only the reply to
\* that is lost, the check is taken to have failed.
PollAskAndDrop ==
    /\ Fails(uid)
    /\ DropsFailed
    /\ snap' = [snap EXCEPT ![uid] = "gone"]
    /\ Asks("FAILED", uid) \/ ("lost" \in Env /\ Asks("IN_PROGRESS", uid))

\* Mutant: the status is saved, and not the id that was found.
PollSettlesStatus ==
    /\ poll.pc = "asking"
    /\ poll.answer # "IN_PROGRESS"
    /\ status' = poll.answer
    /\ poll' = [poll EXCEPT !.pc = "done"]
    /\ UNCHANGED <<kind, task, attempt, uid, action, provider, checks, del, history>>

\* The row is saved as it was loaded, with what the check found.
PollSettles ==
    /\ poll.pc = "asking"
    /\ poll.answer # "IN_PROGRESS"
    /\ status' = poll.answer
    /\ uid' = poll.uid
    /\ poll' = [poll EXCEPT !.pc = "done"]
    /\ UNCHANGED <<kind, task, attempt, action, provider, checks, del, history>>

\* Mutant: a check that found nothing sends no other.
PollOnce ==
    /\ poll.pc = "asking"
    /\ poll.answer = "IN_PROGRESS"
    /\ checks < MaxChecks
    /\ poll' = [poll EXCEPT !.pc = "done"]
    /\ UNCHANGED <<kind, task, attempt, row, provider, checks, del, history>>

\* Mutant: one check too many.
PollLonger ==
    /\ poll.pc = "asking"
    /\ poll.answer = "IN_PROGRESS"
    /\ checks <= MaxChecks
    /\ checks' = checks + 1
    /\ poll' = [poll EXCEPT !.pc = "queued"]
    /\ UNCHANGED <<kind, task, attempt, row, provider, del, history>>

PollAgain ==
    /\ poll.pc = "asking"
    /\ poll.answer = "IN_PROGRESS"
    /\ checks < MaxChecks
    /\ checks' = checks + 1
    /\ poll' = [poll EXCEPT !.pc = "queued"]
    /\ UNCHANGED <<kind, task, attempt, row, provider, del, history>>

PollGivesUp ==
    /\ poll.pc = "asking"
    /\ poll.answer = "IN_PROGRESS"
    /\ checks = MaxChecks
    /\ status' = "TIMEOUT"
    /\ poll' = [poll EXCEPT !.pc = "done"]
    /\ UNCHANGED <<kind, task, attempt, uid, action, provider, checks, del, history>>

-----------------------------------------------------------------------------
(* soft_delete, called by retention for a complete backup, by an operator  *)
(* and by the deletion of the node for any.                                *)

DeleteBegin ==
    /\ del.pc = "none"
    /\ status # "none"
    /\ status = "COMPLETE" \/ "destroy" \in Env
    /\ del' = [pc |-> "asking", uid |-> uid, todo |-> {}]
    /\ early' = (early \/ status \in ActiveStatus \/ \E a \in Attempt : snap[a] = "running")
    /\ UNCHANGED <<kind, task, attempt, row, provider, poll, checks, lost, cut>>

\* The row is saved as it was loaded, and a lookup by name leaves the id it found.
EndDelete(result, id) ==
    /\ status' = result
    /\ uid' = id
    /\ del' = [del EXCEPT !.pc = "none", !.todo = {}]
    /\ UNCHANGED <<kind, task, attempt, action, poll, checks, lost, early>>

LookedUp(a) == IF kind = "hetzner" THEN a ELSE del.uid

DeleteDone ==
    /\ del.pc = "asking"
    /\ kind # "aws_image"
    /\ \E a \in Target(del.uid) :
          /\ snap' = [snap EXCEPT ![a] = "gone"]
          /\ EndDelete("DELETE_COMPLETED", LookedUp(a))
    /\ UNCHANGED <<parts, cut>>

\* The name is looked for inside the names of the provider's list, and the first snapshot
\* whose name contains it is deleted: it may be the twin's.
DeleteTakesTwin ==
    /\ del.pc = "asking"
    /\ kind = "do_twin"
    /\ EndDelete("DELETE_COMPLETED", del.uid)
    /\ UNCHANGED <<provider, cut>>

\* Or the twin is deleted, by retention or an operator, and this one's snapshot taken for it.
TwinDeleted ==
    /\ kind = "do_twin"
    /\ \E a \in Live : snap' = [snap EXCEPT ![a] = "gone"]
    /\ UNCHANGED <<kind, task, attempt, row, parts, poll, checks, del, history>>

\* Nothing is found, or the provider refuses.
DeleteFails ==
    /\ del.pc = "asking"
    /\ \/ /\ Target(del.uid) = {}
          /\ EndDelete(IF kind = "ovh" THEN "DELETE_FAILED_NOT_FOUND" ELSE "DELETE_FAILED", del.uid)
       \/ /\ "refuse" \in Env
          /\ \E a \in Target(del.uid) : EndDelete("DELETE_FAILED", LookedUp(a))
    /\ UNCHANGED <<provider, cut>>

DeleteReplyLost ==
    /\ "lost" \in Env
    /\ del.pc = "asking"
    /\ \E a \in Target(del.uid) :
          /\ snap' = [snap EXCEPT ![a] = "gone"]
          /\ EndDelete("DELETE_FAILED", LookedUp(a))
    /\ cut' = TRUE
    /\ UNCHANGED parts

\* An image of AWS is deregistered; the EBS snapshots it listed are removed a minute later.
\* External: an image lists them once it is no longer being made.
Deregister ==
    /\ del.pc = "asking"
    /\ kind = "aws_image"
    /\ \E a \in Target(del.uid) :
          /\ snap' = [snap EXCEPT ![a] = "gone"]
          /\ del' = [del EXCEPT !.pc = "resting", !.todo = {b \in {a} : snap[b] # "running"}]
    /\ UNCHANGED <<kind, task, attempt, row, parts, poll, checks, history>>

\* Mutant: the backup is reported deleted when its image is deregistered.
DeregisterOnly ==
    /\ del.pc = "resting"
    /\ EndDelete("DELETE_COMPLETED", del.uid)
    /\ UNCHANGED <<snap, parts, cut>>

DeleteParts ==
    /\ del.pc = "resting"
    /\ \/ /\ parts' = parts \ del.todo
          /\ EndDelete("DELETE_COMPLETED", del.uid)
          /\ UNCHANGED cut
       \/ /\ "refuse" \in Env
          /\ EndDelete("DELETE_FAILED", del.uid)
          /\ cut' = TRUE
          /\ UNCHANGED parts
    /\ UNCHANGED snap

-----------------------------------------------------------------------------
(* Faults.                                                                 *)

CrashTask ==
    /\ "crash" \in Env
    /\ task \in {"requesting", "handing"}
    /\ task' = "dead"
    /\ \/ UNCHANGED <<provider, lost>>
       \/ /\ task = "requesting" /\ ~ Clash
          /\ \E a \in Granted : Take(a) /\ lost' = lost \cup {a}
    /\ UNCHANGED <<kind, attempt, row, poll, checks, del, early, cut>>

CrashPoll ==
    /\ "crash" \in Env
    /\ poll.pc = "asking"
    /\ poll' = [poll EXCEPT !.pc = "dead"]
    /\ UNCHANGED <<kind, task, attempt, row, provider, checks, del, history>>

CrashDelete ==
    /\ "crash" \in Env
    /\ del.pc # "none"
    /\ del' = [del EXCEPT !.pc = "none", !.todo = {}]
    /\ \/ UNCHANGED snap
       \/ \E a \in Target(del.uid) : del.pc = "asking" /\ snap' = [snap EXCEPT ![a] = "gone"]
    /\ cut' = TRUE
    /\ UNCHANGED <<kind, task, attempt, row, parts, poll, checks, lost, early>>

Next ==
    \/ Initiate \/ Answered \/ ReplyLost \/ Refused \/ RefusedUnseen
    \/ HandOver \/ HandOverRefused
    \/ \E a \in Attempt : Progress(a)
    \/ PollStop \/ PollAsk \/ PollAskAndDrop \/ PollSettles \/ PollAgain \/ PollGivesUp
    \/ DeleteBegin \/ DeleteDone \/ DeleteFails \/ DeleteReplyLost
    \/ DeleteTakesTwin \/ TwinDeleted \/ Deregister \/ DeleteParts
    \/ CrashTask \/ CrashPoll \/ CrashDelete

Spec == Init /\ [][Next]_vars

\* A task or poll that is queued runs, and what it asks is answered or fails.
Fairness ==
    /\ WF_vars(Initiate)
    /\ WF_vars(Answered \/ Refused)
    /\ WF_vars(HandOver)
    /\ WF_vars(PollStop \/ PollAsk \/ PollAskAndDrop)
    /\ WF_vars(PollSettles \/ PollAgain \/ PollGivesUp)

FairSpec == Spec /\ Fairness

-----------------------------------------------------------------------------
(* Properties.                                                             *)

AtRest ==
    /\ task \in {"done", "dead"}
    /\ poll.pc \in {"none", "done", "dead"}
    /\ del.pc = "none"

\* What a row with this id leads soft_delete to: a finished snapshot of this backup.  That of
\* a droplet which was not in the list is finished as well, and the row has no id to find it.
LeadsToSnapshot(id) ==
    /\ Ready # {}
    /\ Target(id) \cap Ready # {} \/ (kind = "do_cloud" /\ id = None)

\* poll_status reports COMPLETE only of a finished snapshot, and what it saved then leads
\* soft_delete to it, except that a droplet may be left without an id.  A volume of
\* DigitalOcean is complete unasked.
CompleteIsReal ==
    status = "COMPLETE" /\ kind \notin Volumes /\ ~ early /\ ~ cut /\ del.pc = "none"
        => LeadsToSnapshot(uid)

\* However often the task is retried, a second snapshot is taken only when the reply about
\* the first was lost, and not even then where the request carries a token or a key.
NoSecondSnapshot ==
    ~ early => \A a, b \in Made :
        a < b => a \in lost /\ kind \notin NameIsKey \cup {"oracle"}

\* A backup that is reported deleted has left nothing at the provider, neither the snapshot
\* nor the EBS snapshots an image was made of: unless its twin's was deleted instead.
DeletedIsGone ==
    status = "DELETE_COMPLETED" /\ kind # "do_twin" /\ ~ early /\ lost = {} => Live = {} /\ parts = {}

\* A finished snapshot is never out of reach of the next deletion.  Two kinds learn their
\* id when the snapshot ends, and lose it with a poll that does not see the end; a lost
\* reply is made up for only where snapshots are found by name.
LearnsLate == {"do_cloud", "ovh"}
Known ==
    \/ kind \in Volumes \cup {"google"}
    \/ kind = "hetzner" /\ uid = None
    \/ lost = {} /\ (kind \in LearnsLate => uid \in Attempt)

StaysReachable ==
    AtRest /\ ~ early /\ Known /\ Ready # {} => Target(uid) # {}

\* What begins is settled: no answer of a provider keeps a backup active for ever.
ChecksEnd ==
    status \in ActiveStatus ~> status \notin ActiveStatus \/ "dead" \in {task, poll.pc}

\* What the comment at retention says of the volumes it keeps: a complete backup that nobody
\* deletes keeps its snapshot.
KeptIsThere ==
    status = "COMPLETE" /\ ~ early /\ ~ cut /\ del.pc = "none" => Live # {}
=============================================================================
