------------------------ MODULE ProviderSnapshots_proofs ------------------------
(***************************************************************************)
(* Proofs about ProviderSnapshots, for any kinds of node, retry limit and  *)
(* number of checks, and for every choice of faults and operator actions.  *)
(***************************************************************************)
EXTENDS ProviderSnapshots, TLAPS

\* The two kinds that stand for a volume of DigitalOcean differ only where a twin is named.
USE DEF Volumes

-----------------------------------------------------------------------------
(* Why they hold.                                                          *)

\* An id names a snapshot that was taken, and is of the form its kind records.
WellNamed(id) ==
    /\ id \in Attempt => id \in Made /\ kind \notin {"rds", "lightsail"}
    /\ id = ByName => kind \in RecordsName

\* The task goes through its attempts one by one, and hands over once.
TaskInOrder ==
    /\ \A a \in Made : a <= attempt
    /\ task = "requesting" => attempt \notin Made
    /\ task = "waiting" => attempt < MaxRetries
    /\ task = "queued" => Made = {} /\ uid = None /\ action = None
    /\ task = "queued" <=> status = "none"
    /\ status = "none" => del.pc = "none" /\ attempt = 0
    /\ poll.pc # "none" => task = "done"

NamesInOrder ==
    /\ WellNamed(uid) /\ WellNamed(poll.uid) /\ WellNamed(del.uid)
    /\ action \in Attempt => action \in Made
    /\ action # None => kind \in RecordsAction
    /\ parts \subseteq Made
    /\ kind # "aws_image" => parts = {}
    /\ kind = "do_cloud" /\ poll.pc # "done" => uid = None /\ del.uid = None

\* As long as no deletion comes too early, one process at a time has the row.
OneWriter ==
    /\ task \in {"requesting", "handing", "waiting", "dead"} =>
          /\ status \in ActiveStatus /\ del.pc = "none"
          /\ kind # "do_twin" => \A a \in Attempt : snap[a] # "gone"
    /\ poll.pc \in {"queued", "asking", "dead"} => status \in ActiveStatus /\ del.pc = "none"
    /\ del.pc # "none" => del.uid = uid /\ \A a \in Attempt : snap[a] # "running"
    /\ poll.pc = "asking" => poll.uid = uid \/ poll.uid \in Attempt

\* A snapshot whose reply arrived is recorded, and what a poll is about to save is real.
Recorded ==
    /\ Made \ lost # {} => Requested
    /\ task = "requesting" => ~ Requested
    /\ task = "handing" \/ poll.pc # "none" =>
          Requested \/ kind \in Volumes \cup {"lightsail"}
    /\ kind = "do_cloud" /\ poll.pc \in {"queued", "asking"} =>
          \A a \in Attempt : snap[a] # "gone"
    /\ poll.pc = "asking" /\ poll.answer = "COMPLETE" /\ kind \notin Volumes =>
          LeadsToSnapshot(poll.uid)
    /\ del.pc = "resting" => kind = "aws_image" /\ (lost = {} => Live = {} /\ parts \subseteq del.todo)

ProviderInv ==
    /\ TaskInOrder
    /\ NamesInOrder
    /\ ~ early => OneWriter /\ Recorded
    /\ NoSecondSnapshot
    /\ CompleteIsReal
    /\ DeletedIsGone

-----------------------------------------------------------------------------
(* Types.                                                                  *)

LEMMA Numbers ==
    /\ Attempt \subseteq Nat /\ 0 \in Attempt
    /\ \A a \in Attempt : a # None /\ a # ByName /\ (a < MaxRetries => a + 1 \in Attempt)
    /\ None # ByName /\ None \in Ref /\ ByName \in Ref /\ Attempt \subseteq Ref
  BY ProviderAssumption DEF Attempt, Ref

LEMMA InitTypeOK == Init => TypeOK
  <1> SUFFICES ASSUME Init PROVE TypeOK
    OBVIOUS
  <1> USE Numbers
  <1>1. task \in TaskState /\ status \in BackupStatus /\ attempt \in Attempt
    BY DEF Init, TaskState, BackupStatus
  <1>2. snap \in [Attempt -> SnapState] /\ checks \in 0..MaxChecks
    BY ProviderAssumption DEF Init, SnapState
  <1>3. poll \in PollRecord /\ del \in DeleteRecord
    BY DEF Init, PollRecord, DeleteRecord, Answer
  <1> QED BY <1>1, <1>2, <1>3 DEF Init, TypeOK

LEMMA StepTypeOK == TypeOK /\ TaskInOrder /\ [Next]_vars => TypeOK'
  <1> SUFFICES ASSUME TypeOK, TaskInOrder, [Next]_vars PROVE TypeOK'
    OBVIOUS
  <1> USE Numbers DEF row, provider, history
  <1>1. CASE Initiate
    <2>1. attempt' \in Attempt
      BY <1>1, ProviderAssumption DEF Initiate, TypeOK, TaskInOrder, TaskState
    <2> QED BY <1>1, <2>1 DEF Initiate, TypeOK, TaskState, BackupStatus, ActiveStatus
  <1>2. ASSUME NEW a \in Attempt, Take(a)
        PROVE  snap' \in [Attempt -> SnapState] /\ parts' \in SUBSET Attempt
    BY <1>2 DEF Take, TypeOK, SnapState
  <1>3. Granted \subseteq Attempt
    BY DEF Granted, Made, TypeOK
  <1>4. CASE Answered
    <2>1. PICK a \in Granted : Take(a) /\ uid' = RecordedId(a) /\ lost' = lost \ {a}
                               /\ action' = IF kind \in RecordsAction THEN a ELSE action
      BY <1>4 DEF Answered
    <2>2. uid' \in Ref /\ action' \in Attempt \cup {None} /\ lost' \in SUBSET Attempt
      BY <1>3, <2>1 DEF RecordedId, TypeOK
    <2> QED BY <1>2, <1>3, <1>4, <2>1, <2>2 DEF Answered, TypeOK, TaskState, BackupStatus, ActiveStatus
  <1>5. ASSUME Fail PROVE task' \in TaskState /\ status' \in BackupStatus /\ uid' \in Ref
                           /\ action' \in Attempt \cup {None}
    BY <1>5 DEF Fail, TypeOK, TaskState, BackupStatus, ActiveStatus
  <1>6. CASE ReplyLost
    <2>1. PICK a \in Granted : Take(a) /\ lost' = lost \cup {a}
      BY <1>6 DEF ReplyLost
    <2> QED BY <1>2, <1>3, <1>5, <1>6, <2>1 DEF ReplyLost, TypeOK
  <1>7. CASE Refused \/ HandOverRefused
    BY <1>5, <1>7 DEF Refused, HandOverRefused, TypeOK
  <1>8. CASE RefusedUnseen
    BY <1>8 DEF RefusedUnseen, TypeOK, TaskState
  <1>9. CASE HandOver
    BY <1>9 DEF HandOver, TypeOK, TaskState, PollRecord
  <1>10. ASSUME NEW a \in Attempt, Progress(a) PROVE TypeOK'
    BY <1>10 DEF Progress, TypeOK, SnapState
  <1>11. CASE PollStop
    BY <1>11 DEF PollStop, TypeOK, PollRecord
  <1>12. ASSUME NEW answer \in Answer, NEW new \in Ref, Asks(answer, new),
                snap' \in [Attempt -> SnapState]
         PROVE  TypeOK'
    BY <1>12 DEF Asks, TypeOK, PollRecord
  <1>13. CASE PollAsk
    BY <1>12, <1>13 DEF PollAsk, TypeOK, Answer
  <1>14. CASE PollAskAndDrop
    <2>1. snap' \in [Attempt -> SnapState]
      BY <1>14 DEF PollAskAndDrop, TypeOK, SnapState
    <2> QED BY <1>12, <1>14, <2>1 DEF PollAskAndDrop, TypeOK, Answer
  <1>15. CASE PollSettles
    BY <1>15 DEF PollSettles, TypeOK, PollRecord, Answer, BackupStatus
  <1>16. CASE PollAgain
    BY <1>16, ProviderAssumption DEF PollAgain, TypeOK, PollRecord
  <1>17. CASE PollGivesUp
    BY <1>17 DEF PollGivesUp, TypeOK, PollRecord, BackupStatus
  <1>18. CASE DeleteBegin
    BY <1>18 DEF DeleteBegin, TypeOK, DeleteRecord
  <1>19. ASSUME NEW result \in BackupStatus, NEW id \in Ref, EndDelete(result, id),
                snap' \in [Attempt -> SnapState], parts' \in SUBSET Attempt, cut' \in BOOLEAN
         PROVE  TypeOK'
    BY <1>19 DEF EndDelete, TypeOK, DeleteRecord
  <1>20. ASSUME NEW a \in Target(del.uid)
         PROVE  LookedUp(a) \in Ref /\ a \in Attempt
                /\ [snap EXCEPT ![a] = "gone"] \in [Attempt -> SnapState]
    BY <1>20 DEF Target, LookedUp, Live, TypeOK, DeleteRecord, SnapState
  <1>21. {"DELETE_COMPLETED", "DELETE_FAILED", "DELETE_FAILED_NOT_FOUND"} \subseteq BackupStatus
    BY DEF BackupStatus
  <1>22. del.uid \in Ref
    BY DEF TypeOK, DeleteRecord
  <1>23. CASE DeleteDone
    BY <1>19, <1>20, <1>21, <1>23 DEF DeleteDone, TypeOK
  <1>32. CASE DeleteTakesTwin
    BY <1>19, <1>21, <1>22, <1>32 DEF DeleteTakesTwin, TypeOK
  <1>33. CASE TwinDeleted
    <2>1. \A a \in Live : [snap EXCEPT ![a] = "gone"] \in [Attempt -> SnapState]
      BY DEF Live, TypeOK, SnapState
    <2> QED BY <1>33, <2>1 DEF TwinDeleted, TypeOK
  <1>24. CASE DeleteFails
    BY <1>19, <1>20, <1>21, <1>22, <1>24 DEF DeleteFails, TypeOK
  <1>25. CASE DeleteReplyLost
    BY <1>19, <1>20, <1>21, <1>25 DEF DeleteReplyLost, TypeOK
  <1>26. CASE Deregister
    <2>1. PICK a \in Target(del.uid) :
             /\ snap' = [snap EXCEPT ![a] = "gone"]
             /\ del' = [del EXCEPT !.pc = "resting", !.todo = {b \in {a} : snap[b] # "running"}]
      BY <1>26 DEF Deregister
    <2>2. {b \in {a} : snap[b] # "running"} \in SUBSET Attempt
      BY <1>20
    <2>3. del' \in DeleteRecord
      BY <2>1, <2>2 DEF DeleteRecord, TypeOK
    <2> QED BY <1>20, <1>26, <2>1, <2>3 DEF Deregister, TypeOK
  <1>27. CASE DeleteParts
    BY <1>19, <1>21, <1>22, <1>27 DEF DeleteParts, TypeOK
  <1>28. CASE CrashTask
    <2>1. UNCHANGED <<provider, lost>> \/ \E a \in Granted : Take(a) /\ lost' = lost \cup {a}
      BY <1>28 DEF CrashTask
    <2>2. snap' \in [Attempt -> SnapState] /\ parts' \in SUBSET Attempt /\ lost' \in SUBSET Attempt
      BY <1>2, <1>3, <2>1 DEF TypeOK
    <2> QED BY <1>28, <2>2 DEF CrashTask, TypeOK, TaskState
  <1>29. CASE CrashPoll
    BY <1>29 DEF CrashPoll, TypeOK, PollRecord
  <1>30. CASE CrashDelete
    <2>1. snap' \in [Attempt -> SnapState]
      BY <1>20, <1>30 DEF CrashDelete, TypeOK
    <2> QED BY <1>30, <2>1 DEF CrashDelete, TypeOK, DeleteRecord
  <1>31. CASE UNCHANGED vars
    BY <1>31 DEF vars, TypeOK
  <1> QED BY <1>1, <1>4, <1>6, <1>7, <1>8, <1>9, <1>10, <1>11, <1>13, <1>14, <1>15, <1>16, <1>17,
             <1>18, <1>23, <1>24, <1>25, <1>26, <1>27, <1>28, <1>29, <1>30, <1>31,
             <1>32, <1>33 DEF Next

-----------------------------------------------------------------------------
(* The invariant.                                                          *)

LEMMA InitInv == Init => ProviderInv
  BY Numbers DEF Init, ProviderInv, TaskInOrder, NamesInOrder, WellNamed, OneWriter, Recorded,
     NoSecondSnapshot, CompleteIsReal, DeletedIsGone, Made, Live, Ready, ActiveStatus

\* What a request that takes a snapshot finds, unless a deletion came too early: every
\* snapshot there is was lost, and there is none where the name is the key.
LEMMA RequestFacts ==
    ASSUME TypeOK, ProviderInv, task = "requesting", ~ early
    PROVE  /\ Made \subseteq lost
           /\ kind \in NameIsKey /\ ~ Clash => Made = {}
  BY DEF TypeOK, ProviderInv, OneWriter, Recorded, Made, Live, Clash, NameIsKey, SnapState

LEMMA InitiateInv == TypeOK /\ ProviderInv /\ Initiate => ProviderInv'
  <1> SUFFICES ASSUME TypeOK, ProviderInv, Initiate PROVE ProviderInv'
    OBVIOUS
  <1> USE Numbers DEF row, provider, history, Initiate
  <1>1. TaskInOrder'
    BY ProviderAssumption DEF TypeOK, ProviderInv, TaskInOrder, Made, Attempt
  <1>2. NamesInOrder'
    BY DEF ProviderInv, NamesInOrder, WellNamed, Made
  <1>3. ASSUME ~ early' PROVE OneWriter' /\ Recorded'
    BY <1>3 DEF TypeOK, ProviderInv, TaskInOrder, OneWriter, Recorded, Requested, Made, Live, Ready,
       Target, NamedBy, ActiveStatus
  <1>4. NoSecondSnapshot' /\ CompleteIsReal' /\ DeletedIsGone'
    BY DEF ProviderInv, NoSecondSnapshot, CompleteIsReal, DeletedIsGone, Made
  <1> QED BY <1>1, <1>2, <1>3, <1>4 DEF ProviderInv

\* A request takes a snapshot, whatever the task learns of it.
LEMMA TakeFacts ==
    ASSUME TypeOK, ProviderInv, task = "requesting", ~ Clash, NEW a \in Granted, Take(a)
    PROVE  /\ a \in Attempt /\ Made' = Made \cup {a} /\ a <= attempt
           /\ parts' \subseteq Made' /\ (kind # "aws_image" => parts' = {})
           /\ ~ early => /\ kind # "do_twin" => \A b \in Attempt : snap'[b] # "gone"
                         /\ \A b, c \in Made' : b < c => b \in Made /\ kind \notin NameIsKey \cup {"oracle"}
  <1> USE Numbers
  <1>1. a \in Attempt /\ (a = attempt \/ (a \in Made /\ Made # {} /\ kind = "oracle"))
    BY DEF Granted, Made, TypeOK
  <1>2. \A b \in Attempt : snap'[b] = IF b = a /\ snap[b] = "none" THEN "running" ELSE snap[b]
    BY <1>1 DEF Take, TypeOK
  <1>3. Made' = Made \cup {a}
    BY <1>1, <1>2 DEF Made
  <1>4. a <= attempt
    BY <1>1 DEF ProviderInv, TaskInOrder, TypeOK
  <1>5. parts' \subseteq Made' /\ (kind # "aws_image" => parts' = {})
    BY <1>3 DEF Take, ProviderInv, NamesInOrder
  <1>6. ASSUME ~ early, kind # "do_twin" PROVE \A b \in Attempt : snap'[b] # "gone"
    BY <1>2, <1>6 DEF ProviderInv, OneWriter
  <1>7. ASSUME ~ early, NEW b \in Made', NEW c \in Made', b < c
        PROVE  b \in Made /\ kind \notin NameIsKey \cup {"oracle"}
    <2>1. b \in Attempt /\ c \in Attempt /\ (\A d \in Made : d \in Attempt /\ d <= attempt)
      BY <1>1, <1>3, <1>7 DEF Made, ProviderInv, TaskInOrder
    <2>2. b \in Made
      BY <1>1, <1>3, <1>7, <2>1 DEF TypeOK
    <2>3. CASE c \in Made
      BY <1>7, <2>2, <2>3 DEF ProviderInv, NoSecondSnapshot
    <2>4. CASE c \notin Made
      <3>1. a = attempt /\ a \notin Made
        BY <1>1, <1>3, <2>4
      <3>2. kind # "oracle"
        BY <2>2, <3>1 DEF Granted
      <3> QED BY <1>7, <2>2, <3>2, RequestFacts
    <2> QED BY <2>3, <2>4
  <1> QED BY <1>1, <1>3, <1>4, <1>5, <1>6, <1>7

LEMMA AnsweredInv == TypeOK /\ ProviderInv /\ Answered => ProviderInv'
  <1> SUFFICES ASSUME TypeOK, ProviderInv, Answered PROVE ProviderInv'
    OBVIOUS
  <1> USE Numbers
  <1>1. PICK a \in Granted : /\ Take(a)
                             /\ uid' = RecordedId(a)
                             /\ action' = IF kind \in RecordsAction THEN a ELSE action
                             /\ lost' = lost \ {a}
    BY DEF Answered
  <1>2. /\ a \in Attempt /\ Made' = Made \cup {a} /\ a <= attempt
        /\ parts' \subseteq Made' /\ (kind # "aws_image" => parts' = {})
        /\ ~ early => /\ kind # "do_twin" => \A b \in Attempt : snap'[b] # "gone"
                      /\ \A b, c \in Made' : b < c => b \in Made /\ kind \notin NameIsKey \cup {"oracle"}
    BY <1>1, TakeFacts DEF Answered
  <1>3. /\ task = "requesting" /\ task' = "handing" /\ status' = "IN_PROGRESS"
        /\ UNCHANGED <<kind, attempt, poll, checks, del, early, cut>>
    BY DEF Answered
  <1>4. TaskInOrder'
    BY <1>2, <1>3 DEF ProviderInv, TaskInOrder
  <1>5. NamesInOrder'
    BY <1>1, <1>2, <1>3 DEF ProviderInv, NamesInOrder, WellNamed, RecordedId, RecordsName,
       RecordsAction
  <1>6. Requested'
    BY <1>1, <1>2, <1>3 DEF Requested, RecordedId, RecordsName, RecordsAction
  <1>7. ASSUME ~ early' PROVE OneWriter' /\ Recorded'
    BY <1>2, <1>3, <1>6, <1>7 DEF ProviderInv, TaskInOrder, OneWriter, Recorded, ActiveStatus
  <1>8. NoSecondSnapshot'
    <2>1. SUFFICES ASSUME ~ early', NEW b \in Made', NEW c \in Made', b < c
                   PROVE  b \in lost' /\ kind' \notin NameIsKey \cup {"oracle"}
      BY DEF NoSecondSnapshot
    <2>2. b \in Made /\ kind \notin NameIsKey \cup {"oracle"}
      BY <1>2, <1>3, <2>1
    <2>3. b \in lost
      BY <1>3, <2>1, <2>2, RequestFacts
    <2>4. b # a
      <3>1. a = attempt
        BY <1>1, <2>2 DEF Granted
      <3> QED BY <1>3, <2>2, <3>1 DEF ProviderInv, TaskInOrder
    <2> QED BY <1>1, <1>3, <2>2, <2>3, <2>4
  <1>9. CompleteIsReal' /\ DeletedIsGone'
    BY <1>3 DEF CompleteIsReal, DeletedIsGone
  <1> QED BY <1>4, <1>5, <1>7, <1>8, <1>9 DEF ProviderInv

\* A task that fails in any way has not recorded anything.
LEMMA FailInv ==
    ASSUME TypeOK, ProviderInv, task \in {"requesting", "handing"}, Fail,
           UNCHANGED <<kind, attempt, poll, checks, del, early, cut>>,
           \/ UNCHANGED <<provider, lost>>
           \/ task = "requesting" /\ ~ Clash /\ \E a \in Granted : Take(a) /\ lost' = lost \cup {a}
    PROVE  ProviderInv'
  <1> USE Numbers DEF provider
  <1>1. /\ UNCHANGED <<uid, action>>
        /\ status' \in {"RETRYING", "MAX_RETRY_FAILED"}
        /\ task' \in {"waiting", "done"}
        /\ task' = "waiting" => attempt < MaxRetries /\ status' = "RETRYING"
    BY DEF Fail
  <1>2. CASE UNCHANGED <<provider, lost>>
    <2>1. TaskInOrder' /\ NamesInOrder'
      BY <1>1, <1>2 DEF ProviderInv, TaskInOrder, NamesInOrder, WellNamed, Made
    <2>2. ASSUME ~ early' PROVE OneWriter' /\ Recorded'
      BY <1>1, <1>2, <2>2 DEF ProviderInv, TaskInOrder, OneWriter, Recorded, Requested, Made, Live,
         Ready, Target, NamedBy, ActiveStatus
    <2>3. NoSecondSnapshot' /\ CompleteIsReal' /\ DeletedIsGone'
      BY <1>1, <1>2 DEF ProviderInv, NoSecondSnapshot, CompleteIsReal, DeletedIsGone, Made
    <2> QED BY <2>1, <2>2, <2>3 DEF ProviderInv
  <1>3. ASSUME task = "requesting", ~ Clash, NEW a \in Granted, Take(a), lost' = lost \cup {a}
        PROVE  ProviderInv'
    <2>1. /\ a \in Attempt /\ Made' = Made \cup {a} /\ a <= attempt
          /\ parts' \subseteq Made' /\ (kind # "aws_image" => parts' = {})
          /\ ~ early => /\ kind # "do_twin" => \A b \in Attempt : snap'[b] # "gone"
                        /\ \A b, c \in Made' : b < c => b \in Made /\ kind \notin NameIsKey \cup {"oracle"}
      BY <1>3, TakeFacts
    <2>2. TaskInOrder' /\ NamesInOrder'
      BY <1>1, <1>3, <2>1 DEF ProviderInv, TaskInOrder, NamesInOrder, WellNamed
    <2>3. ~ early => Made' \subseteq lost'
      BY <1>3, <2>1, RequestFacts
    <2>4. ASSUME ~ early' PROVE OneWriter' /\ Recorded'
      BY <1>1, <1>3, <2>1, <2>3, <2>4 DEF ProviderInv, TaskInOrder, OneWriter, Recorded,
         ActiveStatus
    <2>5. NoSecondSnapshot'
      BY <1>3, <2>1, <2>3 DEF NoSecondSnapshot
    <2>6. CompleteIsReal' /\ DeletedIsGone'
      BY <1>1 DEF CompleteIsReal, DeletedIsGone
    <2> QED BY <2>2, <2>4, <2>5, <2>6 DEF ProviderInv
  <1> QED BY <1>2, <1>3


\* Steps that leave the provider alone do not disturb what is said of its snapshots.
LEMMA TaskInv ==
    TypeOK /\ ProviderInv /\ (RefusedUnseen \/ HandOver \/ CrashTask) => ProviderInv'
  <1> USE Numbers DEF row, provider, history
  <1>1. ASSUME TypeOK, ProviderInv, UNCHANGED <<kind, attempt, row, provider, checks, del, history>>,
               \/ RefusedUnseen \/ HandOver
               \/ task \in {"requesting", "handing"} /\ task' = "dead" /\ poll' = poll
        PROVE  ProviderInv'
    <2>0. /\ poll'.uid = poll.uid /\ poll'.answer = poll.answer
          /\ poll'.pc = poll.pc \/ (poll'.pc = "queued" /\ task = "handing" /\ task' = "done")
          /\ task \in {"requesting", "handing"} /\ task' \in {"handing", "done", "dead"}
          /\ task' = "handing" => kind \in Volumes \cup {"lightsail"}
      BY <1>1 DEF RefusedUnseen, HandOver, TypeOK, PollRecord
    <2>1. TaskInOrder' /\ NamesInOrder'
      BY <1>1, <2>0 DEF ProviderInv, TaskInOrder, NamesInOrder, WellNamed, Made
    <2>2. ASSUME ~ early' PROVE OneWriter'
      BY <1>1, <2>0, <2>2 DEF ProviderInv, TaskInOrder, OneWriter
    <2>3. ASSUME ~ early' PROVE Recorded'
      <3>1. Requested' = Requested /\ Made' = Made /\ Ready' = Ready /\ Live' = Live
        BY <1>1 DEF Requested, Made, Ready, Live
      <3>2. poll'.pc # "asking"
        BY <1>1, <2>0 DEF ProviderInv, TaskInOrder
      <3>3. OneWriter /\ Recorded /\ del' = del /\ kind' = kind /\ snap' = snap /\ lost' = lost
        BY <1>1, <2>3 DEF ProviderInv
      <3>4. del'.pc = "none"
        BY <2>0, <3>3 DEF OneWriter
      <3>5. task' = "handing" \/ poll'.pc # "none" =>
               Requested' \/ kind' \in Volumes \cup {"lightsail"}
        BY <2>0, <3>1, <3>3 DEF Recorded
      <3>6. kind' = "do_cloud" /\ poll'.pc \in {"queued", "asking"} =>
               \A a \in Attempt : snap'[a] # "gone"
        BY <2>0, <3>3 DEF Recorded, OneWriter
      <3>7. (Made \ lost # {} => Requested)' /\ task' # "requesting"
        BY <2>0, <3>1, <3>3 DEF Recorded
      <3> QED BY <3>2, <3>4, <3>5, <3>6, <3>7 DEF Recorded
    <2>4. NoSecondSnapshot' /\ CompleteIsReal' /\ DeletedIsGone'
      BY <1>1 DEF ProviderInv, NoSecondSnapshot, CompleteIsReal, DeletedIsGone, Made, Live, Ready,
         LeadsToSnapshot, Target, NamedBy
    <2> QED BY <2>1, <2>2, <2>3, <2>4 DEF ProviderInv
  <1>2. ASSUME TypeOK, ProviderInv, CrashTask, ~ UNCHANGED <<provider, lost>> PROVE ProviderInv'
    <2>1. PICK a \in Granted : Take(a) /\ lost' = lost \cup {a}
      BY <1>2 DEF CrashTask
    <2>2. task = "requesting" /\ ~ Clash /\ task' = "dead"
          /\ UNCHANGED <<kind, attempt, row, poll, checks, del, early, cut>>
      BY <1>2 DEF CrashTask
    <2>3. /\ a \in Attempt /\ Made' = Made \cup {a} /\ a <= attempt
          /\ parts' \subseteq Made' /\ (kind # "aws_image" => parts' = {})
          /\ ~ early => /\ kind # "do_twin" => \A b \in Attempt : snap'[b] # "gone"
                        /\ \A b, c \in Made' : b < c => b \in Made /\ kind \notin NameIsKey \cup {"oracle"}
      BY <1>2, <2>1, <2>2, TakeFacts
    <2>4. TaskInOrder' /\ NamesInOrder'
      BY <1>2, <2>2, <2>3 DEF ProviderInv, TaskInOrder, NamesInOrder, WellNamed
    <2>5. ~ early => Made' \subseteq lost'
      BY <1>2, <2>1, <2>2, <2>3, RequestFacts
    <2>6. ASSUME ~ early' PROVE OneWriter' /\ Recorded'
      BY <1>2, <2>2, <2>3, <2>5, <2>6 DEF ProviderInv, TaskInOrder, OneWriter, Recorded
    <2>7. NoSecondSnapshot'
      BY <2>2, <2>3, <2>5 DEF NoSecondSnapshot
    <2>8. ~ early => status \in ActiveStatus
      BY <1>2, <2>2 DEF ProviderInv, OneWriter
    <2>9. CompleteIsReal' /\ DeletedIsGone'
      BY <2>2, <2>8 DEF CompleteIsReal, DeletedIsGone, ActiveStatus
    <2> QED BY <2>4, <2>6, <2>7, <2>9 DEF ProviderInv
  <1>3. ASSUME TypeOK, ProviderInv, CrashTask, UNCHANGED <<provider, lost>> PROVE ProviderInv'
    BY <1>1, <1>3 DEF CrashTask
  <1> QED BY <1>1, <1>2, <1>3 DEF RefusedUnseen, HandOver

LEMMA ProgressInv == ASSUME TypeOK, ProviderInv, NEW a \in Attempt, Progress(a) PROVE ProviderInv'
  <1> USE Numbers DEF row, history
  <1>1. /\ snap[a] = "running" /\ snap' \in [Attempt -> SnapState]
        /\ snap'[a] \in {"ready", "errored"}
        /\ \A b \in Attempt : b # a => snap'[b] = snap[b]
        /\ UNCHANGED <<kind, task, attempt, status, uid, action, parts, poll, checks, del, lost, early, cut>>
    BY DEF Progress, TypeOK, SnapState
  <1>2. Made' = Made /\ Live' = Live /\ Ready \subseteq Ready' /\ Requested' = Requested
    BY <1>1 DEF Made, Live, Ready, Requested
  <1>3. TaskInOrder' /\ NamesInOrder'
    BY <1>1, <1>2 DEF ProviderInv, TaskInOrder, NamesInOrder, WellNamed
  <1>4. \A id \in Ref : LeadsToSnapshot(id) => LeadsToSnapshot(id)'
    BY <1>1, <1>2 DEF LeadsToSnapshot, Target, NamedBy, Ready, Live
  <1>5. ASSUME ~ early' PROVE OneWriter' /\ Recorded'
    <2>1. poll.uid \in Ref
      BY DEF TypeOK, PollRecord
    <2>2. OneWriter'
      BY <1>1, <1>5 DEF ProviderInv, OneWriter
    <2>3. poll.pc = "asking" /\ poll.answer = "COMPLETE" /\ kind \notin Volumes =>
              LeadsToSnapshot(poll.uid)'
      BY <1>1, <1>4, <1>5, <2>1 DEF ProviderInv, Recorded
    <2>4. Recorded'
      BY <1>1, <1>2, <1>5, <2>3 DEF ProviderInv, Recorded
    <2> QED BY <2>2, <2>4
  <1>6. NoSecondSnapshot'
    BY <1>1, <1>2 DEF ProviderInv, NoSecondSnapshot
  <1>7. CompleteIsReal'
    BY <1>1, <1>4 DEF ProviderInv, CompleteIsReal, TypeOK
  <1>8. DeletedIsGone'
    BY <1>1, <1>2 DEF ProviderInv, DeletedIsGone
  <1> QED BY <1>3, <1>5, <1>6, <1>7, <1>8 DEF ProviderInv

-----------------------------------------------------------------------------
(* The poll.                                                               *)

\* What poll_status reports as COMPLETE can be deleted with the id it saves, or is a droplet's
\* and stays without one.
LEMMA FindsFacts ==
    ASSUME TypeOK, NamesInOrder, NEW id \in Ref, WellNamed(id), NEW new \in Ref, Finds(id, new),
           kind = "do_cloud" => id = None
    PROVE  /\ WellNamed(new) /\ (new = id \/ new \in Attempt)
           /\ kind \notin Volumes =>
                 \/ LeadsToSnapshot(new)
                 \/ kind = "do_cloud" /\ \E a \in Attempt : snap[a] = "gone"
                 \/ kind = "rds" /\ id = None
  <1> USE Numbers DEF Finds, LeadsToSnapshot, Ready, Live, Made, WellNamed, TypeOK
  <1>1. WellNamed(new) /\ (new = id \/ new \in Attempt)
    BY DEF RecordsName
  <1>2. CASE new \in Ready
    BY <1>2 DEF Target
  <1>3. CASE kind = "do_cloud" /\ new = id
    <2>1. action \in Attempt /\ snap[action] \in {"ready", "gone"}
      BY <1>3
    <2> QED BY <1>3, <2>1
  <1>4. CASE kind \in {"google", "rds", "lightsail"} /\ ~ (kind = "rds" /\ id = None)
    <2>1. new = id /\ Ready # {}
      BY <1>4
    <2>2. id \in Attempt \/ id = None \/ id = ByName
      BY DEF Ref
    <2>3. NamedBy(id)
      BY <1>4, <2>2 DEF NamedBy
    <2>4. Ready \subseteq Target(id)
      BY <2>3 DEF Target
    <2> QED BY <2>1, <2>4
  <1>5. \/ kind \in Volumes \cup {"google", "rds", "lightsail"}
        \/ new \in Ready
        \/ kind = "do_cloud" /\ new = id
    <2>1. CASE kind = "do_cloud"
      BY <2>1
    <2>2. CASE kind # "do_cloud"
      BY <2>2
    <2> QED BY <2>1, <2>2
  <1> QED BY <1>1, <1>2, <1>3, <1>4, <1>5

\* Steps of the poll that end a check or ask for one; none of them takes a snapshot.
LEMMA AskInv ==
    ASSUME TypeOK, ProviderInv, NEW answer \in Answer, NEW new \in Ref, Asks(answer, new),
           WellNamed(new), new = uid \/ new \in Attempt,
           snap' \in [Attempt -> SnapState],
           \/ snap' = snap
           \/ /\ kind \in {"aws_image", "aws_volume"} /\ answer # "COMPLETE"
              /\ \E a \in Made : snap' = [snap EXCEPT ![a] = "gone"],
           ~ early /\ answer = "COMPLETE" /\ kind \notin Volumes => LeadsToSnapshot(new)
    PROVE  ProviderInv'
  <1> USE Numbers DEF row, history, Asks
  <1>1. /\ Made' = Made /\ Live' \subseteq Live
        /\ \A a \in Attempt : snap'[a] = snap[a] \/ (snap'[a] = "gone" /\ kind \in {"aws_image", "aws_volume"})
    BY DEF Made, Live, TypeOK
  <1>2. poll.pc = "queued" /\ status \notin PollStops /\ poll'.pc = "asking"
        /\ poll'.answer = answer /\ poll'.uid = new
        /\ UNCHANGED <<kind, task, attempt, status, uid, action, parts, checks, del, lost, early, cut>>
    OBVIOUS
  <1>3. TaskInOrder' /\ NamesInOrder'
    BY <1>1, <1>2 DEF ProviderInv, TaskInOrder, NamesInOrder, WellNamed
  <1>4. ASSUME ~ early' PROVE OneWriter'
    BY <1>1, <1>2, <1>4 DEF ProviderInv, TaskInOrder, OneWriter
  <1>5. ASSUME ~ early' PROVE Recorded'
    <2>1. poll'.answer = "COMPLETE" /\ kind \notin Volumes => LeadsToSnapshot(poll.uid)'
      <3>1. SUFFICES ASSUME answer = "COMPLETE", kind \notin Volumes PROVE LeadsToSnapshot(poll.uid)'
        BY <1>2
      <3>2. snap' = snap /\ kind' = kind /\ poll'.uid = new /\ LeadsToSnapshot(new)
        BY <1>2, <1>5, <3>1
      <3>3. Ready' = Ready /\ Live' = Live
        BY <3>2 DEF Ready, Live
      <3>4. Target(poll.uid)' = Target(new)
        BY <3>2, <3>3 DEF Target, NamedBy
      <3> QED BY <3>2, <3>3, <3>4 DEF LeadsToSnapshot
    <2>2. task = "done" /\ del.pc = "none"
      BY <1>2, <1>5 DEF ProviderInv, TaskInOrder, OneWriter
    <2>3. Requested' = Requested
      BY <1>2 DEF Requested
    <2> QED BY <1>1, <1>2, <1>5, <2>1, <2>2, <2>3 DEF ProviderInv, Recorded
  <1>6. NoSecondSnapshot'
    BY <1>1, <1>2 DEF ProviderInv, NoSecondSnapshot
  <1>7. CompleteIsReal' /\ DeletedIsGone'
    BY <1>2 DEF CompleteIsReal, DeletedIsGone, PollStops
  <1> QED BY <1>3, <1>4, <1>5, <1>6, <1>7 DEF ProviderInv

LEMMA PollAskInv == TypeOK /\ ProviderInv /\ (PollAsk \/ PollAskAndDrop) => ProviderInv'
  <1> SUFFICES ASSUME TypeOK, ProviderInv, PollAsk \/ PollAskAndDrop PROVE ProviderInv'
    OBVIOUS
  <1>1. uid \in Ref /\ WellNamed(uid) /\ NamesInOrder /\ snap \in [Attempt -> SnapState]
    BY DEF TypeOK, ProviderInv, NamesInOrder
  <1>2. CASE Asks("IN_PROGRESS", uid) /\ UNCHANGED snap
    BY <1>1, <1>2, AskInv DEF Answer
  <1>3. ASSUME NEW new \in Ref, Finds(uid, new), Asks("COMPLETE", new), UNCHANGED snap
        PROVE  ProviderInv'
    <2>1. ~ early => /\ kind = "do_cloud" => \A a \in Attempt : snap[a] # "gone"
                     /\ kind = "rds" => uid # None
      BY <1>3 DEF Asks, ProviderInv, Recorded, Requested
    <2>2. kind = "do_cloud" => uid = None
      BY <1>1, <1>3 DEF Asks, NamesInOrder
    <2>3. WellNamed(new) /\ (new = uid \/ new \in Attempt)
          /\ (~ early /\ kind \notin Volumes => LeadsToSnapshot(new))
      BY <1>1, <1>3, <2>1, <2>2, FindsFacts
    <2> QED BY <1>1, <1>3, <2>3, AskInv DEF Answer
  <1>4. CASE Asks("FAILED", uid) /\ UNCHANGED snap
    BY <1>1, <1>4, AskInv DEF Answer
  <1>5. CASE PollAskAndDrop
    <2>1. uid \in Made
      BY <1>5, Numbers DEF PollAskAndDrop, Fails, DropsFailed
    <2>2. snap' = [snap EXCEPT ![uid] = "gone"] /\ kind \in {"aws_image", "aws_volume"}
      BY <1>5 DEF PollAskAndDrop, DropsFailed
    <2>3. snap' \in [Attempt -> SnapState]
      BY <1>1, <2>1, <2>2 DEF Made, SnapState
    <2>4. Asks("FAILED", uid) \/ Asks("IN_PROGRESS", uid)
      BY <1>5 DEF PollAskAndDrop
    <2> QED BY <1>1, <2>1, <2>2, <2>3, <2>4, AskInv DEF Answer
  <1> QED BY <1>2, <1>3, <1>4, <1>5 DEF PollAsk

\* A check that has its answer, or a poll that ends, touches no snapshot.
LEMMA PollEndsInv ==
    TypeOK /\ ProviderInv /\ (PollStop \/ PollSettles \/ PollAgain \/ PollGivesUp \/ CrashPoll)
        => ProviderInv'
  <1> SUFFICES ASSUME TypeOK, ProviderInv,
                      PollStop \/ PollSettles \/ PollAgain \/ PollGivesUp \/ CrashPoll
               PROVE  ProviderInv'
    OBVIOUS
  <1> USE Numbers DEF row, provider, history
  <1>1. /\ UNCHANGED <<kind, task, attempt, action, snap, parts, del, lost, early, cut>>
        /\ poll.pc \in {"queued", "asking"} /\ poll' = [poll EXCEPT !.pc = poll'.pc]
        /\ poll'.pc \in {"done", "dead", "queued"}
        /\ poll'.pc # "done" => status' = status
        /\ uid' = uid \/ (poll.pc = "asking" /\ uid' = poll.uid)
        /\ status' = status \/ (poll.pc = "asking" /\ status' = poll.answer) \/ status' = "TIMEOUT"
        /\ status' = "COMPLETE" =>
              \/ status = "COMPLETE" /\ uid' = uid
              \/ poll.pc = "asking" /\ poll.answer = "COMPLETE" /\ uid' = poll.uid
    BY DEF PollStop, PollSettles, PollAgain, PollGivesUp, CrashPoll, TypeOK, PollRecord
  <1>2. Made' = Made /\ Live' = Live /\ Ready' = Ready
    BY <1>1 DEF Made, Live, Ready
  <1>3. poll'.uid = poll.uid /\ poll'.answer = poll.answer
    BY <1>1 DEF TypeOK, PollRecord
  <1>4. task = "done" /\ task' = "done"
    BY <1>1 DEF ProviderInv, TaskInOrder
  <1>5. status # "none" /\ status' # "none"
    BY <1>1, <1>4 DEF ProviderInv, TaskInOrder, TypeOK, PollRecord, Answer
  <1>6. TaskInOrder'
    BY <1>1, <1>2, <1>4, <1>5 DEF ProviderInv, TaskInOrder
  <1>7. NamesInOrder'
    <2>1. poll'.pc # "done" => uid' = uid
      BY DEF PollStop, PollSettles, PollAgain, PollGivesUp, CrashPoll, TypeOK, PollRecord
    <2> QED BY <1>1, <1>2, <1>3, <2>1 DEF ProviderInv, NamesInOrder, WellNamed
  <1>8. ASSUME ~ early' PROVE OneWriter' /\ Recorded'
    <2>1. OneWriter /\ Recorded /\ del.pc = "none" /\ status \in ActiveStatus
      BY <1>1, <1>8 DEF ProviderInv, OneWriter
    <2>2. OneWriter'
      BY <1>1, <1>4, <2>1 DEF OneWriter
    <2>3. Requested => Requested'
      BY <1>1, <2>1 DEF Requested, OneWriter
    <2>4. Recorded'
      BY <1>1, <1>2, <1>4, <2>1, <2>3 DEF Recorded
    <2> QED BY <2>2, <2>4
  <1>9. NoSecondSnapshot'
    BY <1>1, <1>2 DEF ProviderInv, NoSecondSnapshot
  <1>10. CompleteIsReal'
    <2>1. SUFFICES ASSUME status' = "COMPLETE", kind \notin Volumes, ~ early, ~ cut, del.pc = "none"
                   PROVE  LeadsToSnapshot(uid)'
      BY <1>1 DEF CompleteIsReal
    <2>2. \A id : Target(id)' = Target(id)
      BY <1>1, <1>2 DEF Target, NamedBy
    <2>3. LeadsToSnapshot(uid')
      BY <1>1, <2>1 DEF ProviderInv, CompleteIsReal, Recorded
    <2> QED BY <1>1, <1>2, <2>3 DEF LeadsToSnapshot, Target, NamedBy
  <1>11. DeletedIsGone'
    BY <1>1, <1>2 DEF ProviderInv, DeletedIsGone, TypeOK, PollRecord, Answer
  <1> QED BY <1>6, <1>7, <1>8, <1>9, <1>10, <1>11 DEF ProviderInv

-----------------------------------------------------------------------------
(* The deletion.                                                           *)

LEMMA DeleteBeginInv == TypeOK /\ ProviderInv /\ DeleteBegin => ProviderInv'
  <1> SUFFICES ASSUME TypeOK, ProviderInv, DeleteBegin PROVE ProviderInv'
    OBVIOUS
  <1> USE Numbers DEF row, provider, history, DeleteBegin
  <1>1. /\ UNCHANGED <<kind, task, attempt, status, uid, action, snap, parts, poll, checks, lost, cut>>
        /\ del'.pc = "asking" /\ del'.uid = uid /\ status # "none" /\ early => early'
    OBVIOUS
  <1>2. Made' = Made /\ Live' = Live /\ Ready' = Ready /\ Requested' = Requested
    BY <1>1 DEF Made, Live, Ready, Requested
  <1>3. TaskInOrder' /\ NamesInOrder'
    BY <1>1, <1>2 DEF ProviderInv, TaskInOrder, NamesInOrder, WellNamed
  <1>4. ASSUME ~ early' PROVE OneWriter' /\ Recorded'
    <2>1. /\ OneWriter /\ Recorded
          /\ status \notin ActiveStatus /\ \A a \in Attempt : snap[a] # "running"
      BY <1>4 DEF ProviderInv
    <2>2. OneWriter'
      BY <1>1, <2>1 DEF OneWriter
    <2>3. poll'.pc # "asking"
      BY <1>1, <2>1 DEF OneWriter
    <2>4. Recorded'
      BY <1>1, <1>2, <2>1, <2>3 DEF Recorded
    <2> QED BY <2>2, <2>4
  <1>5. NoSecondSnapshot' /\ CompleteIsReal' /\ DeletedIsGone'
    BY <1>1, <1>2 DEF ProviderInv, NoSecondSnapshot, CompleteIsReal, DeletedIsGone
  <1> QED BY <1>3, <1>4, <1>5 DEF ProviderInv

\* What a deletion may do to the snapshots, however it ends: it removes one that is its
\* target, or none.
Removes ==
    \/ snap' = snap
    \/ \E a \in Target(del.uid) : snap' = [snap EXCEPT ![a] = "gone"]

LEMMA RemovesFacts ==
    ASSUME TypeOK, ProviderInv, Removes
    PROVE  /\ Made' = Made /\ Live' \subseteq Live
           /\ \A a \in Attempt : snap'[a] = snap[a] \/ snap'[a] = "gone"
  BY DEF Removes, Target, Made, Live, TypeOK

\* The end of a deletion, with its result.
LEMMA EndInv ==
    ASSUME TypeOK, ProviderInv, del.pc # "none", Removes,
           NEW result \in {"DELETE_COMPLETED", "DELETE_FAILED", "DELETE_FAILED_NOT_FOUND"},
           NEW id \in Ref, EndDelete(result, id), WellNamed(id), id = None => uid = None \/ early,
           kind = "do_cloud" => id = del.uid,
           parts' \subseteq parts,
           result = "DELETE_COMPLETED" /\ kind # "do_twin" /\ ~ early /\ lost = {} => Live' = {} /\ parts' = {}
    PROVE  ProviderInv'
  <1> USE Numbers DEF EndDelete
  <1>1. /\ UNCHANGED <<kind, task, attempt, action, poll, checks, lost, early>>
        /\ status' = result /\ uid' = id /\ del'.pc = "none" /\ del'.uid = del.uid
    BY DEF TypeOK, DeleteRecord
  <1>2. /\ Made' = Made /\ Live' \subseteq Live
        /\ \A a \in Attempt : snap'[a] = snap[a] \/ snap'[a] = "gone"
    BY RemovesFacts
  <1>3. status # "none" /\ task # "queued"
    BY DEF ProviderInv, TaskInOrder
  <1>4. TaskInOrder'
    BY <1>1, <1>2, <1>3 DEF ProviderInv, TaskInOrder
  <1>5. NamesInOrder'
    BY <1>1, <1>2 DEF ProviderInv, NamesInOrder, WellNamed
  <1>6. ASSUME ~ early' PROVE OneWriter' /\ Recorded'
    <2>1. /\ OneWriter /\ Recorded /\ ~ early
          /\ task \notin {"requesting", "handing", "waiting", "dead"}
          /\ poll.pc \notin {"queued", "asking", "dead"}
      BY <1>1, <1>6 DEF ProviderInv, OneWriter
    <2>2. OneWriter'
      BY <1>1, <2>1 DEF OneWriter
    <2>3. Requested => Requested'
      BY <1>1, <2>1 DEF Requested
    <2>4. Recorded'
      BY <1>1, <1>2, <2>1, <2>3 DEF Recorded
    <2> QED BY <2>2, <2>4
  <1>7. NoSecondSnapshot'
    BY <1>1, <1>2 DEF ProviderInv, NoSecondSnapshot
  <1>8. CompleteIsReal' /\ DeletedIsGone'
    BY <1>1 DEF CompleteIsReal, DeletedIsGone
  <1> QED BY <1>4, <1>5, <1>6, <1>7, <1>8 DEF ProviderInv

\* A deletion that is not early, and of which no snapshot was lost, has one snapshot to remove.
LEMMA OneSnapshot ==
    ASSUME TypeOK, ProviderInv, ~ early, lost = {}, NEW a \in Made, NEW b \in Made
    PROVE  a = b
  BY Numbers DEF ProviderInv, NoSecondSnapshot, Made

LEMMA TargetFacts ==
    ASSUME TypeOK, ProviderInv, del.pc # "none", NEW a \in Target(del.uid)
    PROVE  /\ a \in Attempt /\ a \in Made /\ a \in Live
           /\ LookedUp(a) \in Ref /\ WellNamed(LookedUp(a))
           /\ (LookedUp(a) = None => uid = None \/ early)
           /\ kind = "do_cloud" => LookedUp(a) = del.uid
  <1> USE Numbers
  <1>1. a \in Attempt /\ a \in Made /\ a \in Live
    BY DEF Target, Live, Made
  <1>2. CASE kind = "hetzner"
    BY <1>1, <1>2 DEF LookedUp, WellNamed
  <1>3. CASE kind # "hetzner"
    BY <1>1, <1>3 DEF LookedUp, ProviderInv, NamesInOrder, OneWriter, TypeOK, DeleteRecord
  <1> QED BY <1>1, <1>2, <1>3

LEMMA DeleteEndsInv ==
    TypeOK /\ ProviderInv /\ (DeleteDone \/ DeleteTakesTwin \/ DeleteFails \/ DeleteReplyLost \/ DeleteParts)
        => ProviderInv'
  <1> SUFFICES ASSUME TypeOK, ProviderInv,
                      \/ DeleteDone \/ DeleteTakesTwin \/ DeleteFails \/ DeleteReplyLost
                      \/ DeleteParts
               PROVE  ProviderInv'
    OBVIOUS
  <1> USE Numbers DEF provider
  <1>1. /\ del.uid \in Ref /\ WellNamed(del.uid)
        /\ del.pc # "none" /\ (del.uid = None => uid = None \/ early)
    BY DEF DeleteDone, DeleteTakesTwin, DeleteFails, DeleteReplyLost, DeleteParts, ProviderInv,
       NamesInOrder, OneWriter, TypeOK, DeleteRecord
  <1>2. CASE DeleteDone
    <2>1. PICK a \in Target(del.uid) : /\ snap' = [snap EXCEPT ![a] = "gone"]
                                       /\ EndDelete("DELETE_COMPLETED", LookedUp(a))
      BY <1>2 DEF DeleteDone
    <2>2. ASSUME ~ early, lost = {} PROVE Live' = {} /\ parts' = {}
      <3>1. \A b \in Made : b = a
        BY <1>1, <2>1, <2>2, OneSnapshot, TargetFacts
      <3>2. parts' = {}
        BY <1>2 DEF DeleteDone, ProviderInv, NamesInOrder
      <3>3. Live' = {}
        BY <1>1, <2>1, <3>1, TargetFacts DEF Live, Made, TypeOK
      <3> QED BY <3>2, <3>3
    <2>3. Removes /\ parts' = parts
      BY <1>2, <2>1 DEF DeleteDone, Removes
    <2> QED BY <1>1, <2>1, <2>2, <2>3, TargetFacts, EndInv
  <1>3. CASE DeleteFails
    <2>1. Removes /\ parts' = parts
      BY <1>3 DEF DeleteFails, Removes
    <2>2. \/ EndDelete("DELETE_FAILED_NOT_FOUND", del.uid) \/ EndDelete("DELETE_FAILED", del.uid)
          \/ \E a \in Target(del.uid) : EndDelete("DELETE_FAILED", LookedUp(a))
      BY <1>3 DEF DeleteFails
    <2> QED BY <1>1, <2>1, <2>2, TargetFacts, EndInv
  <1>4. CASE DeleteReplyLost
    <2>1. Removes /\ parts' = parts
      BY <1>4 DEF DeleteReplyLost, Removes
    <2>2. \E a \in Target(del.uid) : EndDelete("DELETE_FAILED", LookedUp(a))
      BY <1>4 DEF DeleteReplyLost
    <2> QED BY <1>1, <2>1, <2>2, TargetFacts, EndInv
  <1>5. CASE DeleteParts
    <2>1. Removes /\ parts' \subseteq parts /\ Live' = Live
      BY <1>5 DEF DeleteParts, Removes, Live
    <2>2. CASE parts' = parts \ del.todo /\ EndDelete("DELETE_COMPLETED", del.uid)
      <3>1. ~ early /\ lost = {} => Live' = {} /\ parts' = {}
        BY <1>5, <2>1, <2>2 DEF DeleteParts, ProviderInv, Recorded
      <3> QED BY <1>1, <2>1, <2>2, <3>1, EndInv
    <2>3. CASE EndDelete("DELETE_FAILED", del.uid)
      BY <1>1, <2>1, <2>3, EndInv
    <2> QED BY <1>5, <2>2, <2>3 DEF DeleteParts
  <1>6. CASE DeleteTakesTwin
    <2>1. Removes /\ parts' = parts /\ kind = "do_twin" /\ EndDelete("DELETE_COMPLETED", del.uid)
      BY <1>6 DEF DeleteTakesTwin, Removes
    <2> QED BY <1>1, <2>1, EndInv
  <1> QED BY <1>2, <1>3, <1>4, <1>5, <1>6

\* The snapshot goes with another backup: whoever has the row is not told.
LEMMA TwinInv == TypeOK /\ ProviderInv /\ TwinDeleted => ProviderInv'
  <1> SUFFICES ASSUME TypeOK, ProviderInv, TwinDeleted PROVE ProviderInv'
    OBVIOUS
  <1> USE Numbers DEF row, history
  <1>1. /\ UNCHANGED <<kind, task, attempt, status, uid, action, parts, poll, checks, del, lost, early, cut>>
        /\ kind = "do_twin" /\ \E a \in Live : snap' = [snap EXCEPT ![a] = "gone"]
    BY DEF TwinDeleted
  <1>2. /\ Made' = Made /\ Live' \subseteq Live
        /\ \A a \in Attempt : snap'[a] = snap[a] \/ snap'[a] = "gone"
    BY <1>1 DEF Made, Live, TypeOK
  <1>3. TaskInOrder' /\ NamesInOrder'
    BY <1>1, <1>2 DEF ProviderInv, TaskInOrder, NamesInOrder, WellNamed
  <1>4. ASSUME ~ early' PROVE OneWriter' /\ Recorded'
    <2>1. OneWriter'
      BY <1>1, <1>2, <1>4 DEF ProviderInv, OneWriter
    <2>2. Requested' = Requested
      BY <1>1 DEF Requested
    <2> QED BY <1>1, <1>2, <1>4, <2>1, <2>2 DEF ProviderInv, Recorded
  <1>5. NoSecondSnapshot'
    BY <1>1, <1>2 DEF ProviderInv, NoSecondSnapshot
  <1>6. CompleteIsReal' /\ DeletedIsGone'
    BY <1>1 DEF CompleteIsReal, DeletedIsGone
  <1> QED BY <1>3, <1>4, <1>5, <1>6 DEF ProviderInv

\* The steps that remove a snapshot and leave the row.
LEMMA RemovalInv ==
    TypeOK /\ ProviderInv /\ (Deregister \/ CrashDelete) => ProviderInv'
  <1> SUFFICES ASSUME TypeOK, ProviderInv, Deregister \/ CrashDelete PROVE ProviderInv'
    OBVIOUS
  <1> USE Numbers DEF row, provider, history
  <1>1. /\ UNCHANGED <<kind, task, attempt, status, uid, action, parts, poll, checks, lost, early>>
        /\ del.pc # "none" /\ del'.uid = del.uid /\ Removes
    BY DEF Deregister, CrashDelete, Removes, TypeOK, DeleteRecord
  <1>2. /\ Made' = Made /\ Live' \subseteq Live
        /\ \A a \in Attempt : snap'[a] = snap[a] \/ snap'[a] = "gone"
    BY <1>1, RemovesFacts
  <1>3. status # "none" /\ task # "queued"
    BY <1>1 DEF ProviderInv, TaskInOrder
  <1>4. TaskInOrder' /\ NamesInOrder'
    BY <1>1, <1>2, <1>3 DEF ProviderInv, TaskInOrder, NamesInOrder, WellNamed
  <1>5. ASSUME ~ early' PROVE OneWriter' /\ Recorded'
    <2>1. /\ OneWriter /\ Recorded /\ ~ early /\ del.uid = uid
          /\ \A a \in Attempt : snap[a] # "running"
          /\ task \notin {"requesting", "handing", "waiting", "dead"}
          /\ poll.pc \notin {"queued", "asking", "dead"}
      BY <1>1, <1>5 DEF ProviderInv, OneWriter
    <2>2. OneWriter'
      BY <1>1, <1>2, <2>1 DEF OneWriter
    <2>3. Requested' = Requested
      BY <1>1 DEF Requested
    <2>4. del'.pc = "resting" => kind = "aws_image" /\ (lost = {} => Live' = {} /\ parts \subseteq del'.todo)
      <3>1. SUFFICES ASSUME Deregister
                     PROVE  kind = "aws_image" /\ (lost = {} => Live' = {} /\ parts \subseteq del'.todo)
        BY DEF CrashDelete, TypeOK, DeleteRecord
      <3>2. PICK a \in Target(del.uid) :
               /\ snap' = [snap EXCEPT ![a] = "gone"]
               /\ del' = [del EXCEPT !.pc = "resting", !.todo = {b \in {a} : snap[b] # "running"}]
        BY <3>1 DEF Deregister
      <3>3. a \in Attempt /\ a \in Made
        BY <1>1, TargetFacts
      <3>4. del'.todo = {a}
        BY <2>1, <3>2, <3>3 DEF TypeOK, DeleteRecord
      <3>5. ASSUME lost = {} PROVE \A b \in Made : b = a
        BY <2>1, <3>3, <3>5, OneSnapshot
      <3>6. ASSUME lost = {} PROVE Live' = {}
        BY <3>2, <3>3, <3>5, <3>6 DEF Live, Made, TypeOK
      <3>7. ASSUME lost = {} PROVE parts \subseteq {a}
        BY <3>5, <3>7 DEF ProviderInv, NamesInOrder
      <3> QED BY <3>1, <3>4, <3>6, <3>7 DEF Deregister
    <2>5. Recorded'
      BY <1>1, <1>2, <2>1, <2>3, <2>4 DEF Recorded
    <2> QED BY <2>2, <2>5
  <1>6. NoSecondSnapshot'
    BY <1>1, <1>2 DEF ProviderInv, NoSecondSnapshot
  <1>7. CompleteIsReal'
    <2>1. del'.pc # "none" \/ cut'
      BY DEF Deregister, CrashDelete, TypeOK, DeleteRecord
    <2> QED BY <2>1 DEF CompleteIsReal
  <1>8. DeletedIsGone'
    BY <1>1, <1>2 DEF ProviderInv, DeletedIsGone
  <1> QED BY <1>4, <1>5, <1>6, <1>7, <1>8 DEF ProviderInv

-----------------------------------------------------------------------------
(* The theorems.                                                           *)

LEMMA StepInv == TypeOK /\ ProviderInv /\ [Next]_vars => ProviderInv'
  <1> SUFFICES ASSUME TypeOK, ProviderInv, [Next]_vars PROVE ProviderInv'
    OBVIOUS
  <1>1. CASE ReplyLost \/ Refused \/ HandOverRefused
    BY <1>1, FailInv DEF ReplyLost, Refused, HandOverRefused, provider, history
  <1>2. CASE UNCHANGED vars
    BY <1>2 DEF vars, ProviderInv, TaskInOrder, NamesInOrder, WellNamed, OneWriter, Recorded,
       Requested, NoSecondSnapshot, CompleteIsReal, DeletedIsGone, Made, Live, Ready,
       LeadsToSnapshot, Target, NamedBy
  <1>3. ASSUME NEW a \in Attempt, Progress(a) PROVE ProviderInv'
    BY <1>3, ProgressInv
  <1> QED BY <1>1, <1>2, <1>3, InitiateInv, AnsweredInv, TaskInv, PollAskInv, PollEndsInv,
             DeleteBeginInv, DeleteEndsInv, TwinInv, RemovalInv DEF Next

LEMMA Inductive == Spec => [](TypeOK /\ ProviderInv)
  <1>1. Init => TypeOK /\ ProviderInv
    BY InitTypeOK, InitInv
  <1>2. TypeOK /\ ProviderInv /\ [Next]_vars => (TypeOK /\ ProviderInv)'
    BY StepTypeOK, StepInv DEF ProviderInv
  <1> QED BY <1>1, <1>2, PTL DEF Spec

\* Every variable has its type, whatever the provider, the operator and the faults do.
THEOREM TypeCorrect == Spec => []TypeOK
  BY Inductive, PTL

\* However often a task is retried, it takes a second snapshot only when the reply about the
\* first was lost, and never where the request carries a token or a key.
THEOREM OneSnapshotEach == Spec => []NoSecondSnapshot
  <1>1. TypeOK /\ ProviderInv => NoSecondSnapshot
    BY DEF ProviderInv
  <1> QED BY <1>1, Inductive, PTL

\* What poll_status reports as COMPLETE is a finished snapshot, and soft_delete finds it with
\* what the row then holds: all but a droplet's that the provider's list did not show.
THEOREM CompleteCanBeDeleted == Spec => []CompleteIsReal
  <1>1. TypeOK /\ ProviderInv => CompleteIsReal
    BY DEF ProviderInv
  <1> QED BY <1>1, Inductive, PTL

\* A backup reported deleted has left neither its snapshot nor the parts of it, unless its
\* twin was deleted in its place.
THEOREM DeletionIsWhole == Spec => []DeletedIsGone
  <1>1. TypeOK /\ ProviderInv => DeletedIsGone
    BY DEF ProviderInv
  <1> QED BY <1>1, Inductive, PTL

\* A finished snapshot of a backup at rest is what the next deletion finds.
THEOREM SnapshotsStayReachable == Spec => []StaysReachable
  <1>1. ASSUME TypeOK, ProviderInv PROVE StaysReachable
    <2>1. SUFFICES ASSUME AtRest, ~ early, Known, NEW a \in Ready PROVE Target(uid) # {}
      BY DEF StaysReachable
    <2>2. a \in Attempt /\ snap[a] = "ready" /\ a \in Made /\ a \in Live
      BY <2>1 DEF Ready, Made, Live
    <2>3. CASE kind \in Volumes \cup {"google"} \/ (kind = "hetzner" /\ uid = None)
      BY <2>2, <2>3 DEF Target, NamedBy
    <2>4. CASE lost = {} /\ (kind \in LearnsLate => uid \in Attempt) /\ kind \notin Volumes
      <3>1. Requested
        BY <1>1, <2>1, <2>2, <2>4 DEF ProviderInv, Recorded
      <3>2. uid # None
        BY <2>4, <3>1, Numbers DEF Requested, LearnsLate
      <3>3. CASE uid \in Attempt
        <4>1. uid = a
          BY <1>1, <2>1, <2>2, <2>4, <3>3, OneSnapshot DEF ProviderInv, NamesInOrder, WellNamed
        <4> QED BY <2>2, <4>1 DEF Target
      <3>4. CASE uid = ByName
        <4>1. kind \in {"lightsail", "rds"}
          BY <1>1, <2>4, <3>4, Numbers DEF ProviderInv, NamesInOrder, WellNamed, RecordsName, LearnsLate
        <4> QED BY <2>2, <3>4, <4>1 DEF Target, NamedBy
      <3> QED BY <1>1, <3>2, <3>3, <3>4 DEF TypeOK, Ref
    <2> QED BY <2>1, <2>3, <2>4 DEF Known
  <1> QED BY <1>1, Inductive, PTL
=============================================================================
