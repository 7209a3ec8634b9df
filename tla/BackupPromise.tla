----------------------------- MODULE BackupPromise -----------------------------
(***************************************************************************)
(* What the backup pipeline of one node promises: its backups run one at a *)
(* time, each settles once, as stored or as failed, and retention removes  *)
(* a stored backup of the schedule only while keep_last newer ones stay.   *)
(* A backup an operator cancelled, deleted or re-sent is void: nothing is  *)
(* promised of it, and it may stand for a newer backup in the count.       *)
(***************************************************************************)
EXTENDS Naturals, FiniteSets

CONSTANTS Task, Scheduled, KeepLast

VARIABLES
    phase,  \* of each backup
    age     \* its place in the order the backups began

Phase == {"idle", "running", "stored", "failed", "pruned", "void"}

TypeOK == phase \in [Task -> Phase] /\ age \in [Task -> Nat]

Init ==
    /\ phase = [t \in Task |-> "idle"]
    /\ age = [t \in Task |-> 0]

Begin(t) ==
    /\ phase[t] = "idle"
    /\ \A u \in Task : phase[u] # "running"
    /\ phase' = [phase EXCEPT ![t] = "running"]
    /\ age' = [age EXCEPT ![t] = 1 + Cardinality({u \in Task : phase[u] # "idle"})]

Settle(t) ==
    /\ phase[t] = "running"
    /\ \E outcome \in {"stored", "failed"} : phase' = [phase EXCEPT ![t] = outcome]
    /\ UNCHANGED age

Prune(t) ==
    /\ phase[t] = "stored"
    /\ t \in Scheduled
    /\ KeepLast > 0
    /\ Cardinality({u \in Scheduled : age[u] > age[t] /\ phase[u] \in {"stored", "void"}}) >= KeepLast
    /\ phase' = [phase EXCEPT ![t] = "pruned"]
    /\ UNCHANGED age

Void(t) ==
    /\ phase[t] # "idle"
    /\ phase' = [phase EXCEPT ![t] = "void"]
    /\ UNCHANGED age

Next == \E t \in Task : Begin(t) \/ Settle(t) \/ Prune(t) \/ Void(t)

Spec == Init /\ [][Next]_<<phase, age>>
=============================================================================
