----------------------------- MODULE Lifecycle_proofs -----------------------------
(***************************************************************************)
(* Proofs about Lifecycle, for any requests, backup tasks and retry limit, *)
(* and for every choice of operations and faults.                          *)
(***************************************************************************)
EXTENDS Lifecycle, TLAPS

-----------------------------------------------------------------------------
(* Types.                                                                  *)

LEMMA InitTypeOK == Init => TypeOK
  <1> SUFFICES ASSUME Init PROVE TypeOK
    OBVIOUS
  <1>1. [q \in Request |-> 0] \in [Request -> 0 .. MaxTries]
    BY LifecycleAssumption
  <1>2. {raced, crossed, undone} \subseteq BOOLEAN
    BY DEF Init
  <1> QED BY <1>1, <1>2 DEF Init, TypeOK, NodeStatus

\* A request on the schedule has a status of the schedule in hand.
ScheduleSeen == \A q \in Request : op[q] \in ScheduleOp => seen[q] \in {"ACTIVE", "PAUSED"}

LEMMA StepTypeOK == TypeOK /\ ScheduleSeen /\ [Next]_vars => TypeOK'
  <1> SUFFICES ASSUME TypeOK, ScheduleSeen, [Next]_vars PROVE TypeOK'
    OBVIOUS
  <1> USE DEF TypeOK, schedule, request, deletion, backup, nodeHistory, copyHistory
  <1>1. ASSUME NEW q \in Request, NEW o \in Op, LoadNode(q, o) PROVE TypeOK'
    BY <1>1 DEF LoadNode, Move
  <1>2. ASSUME NEW q \in Request, SaveNode(q) PROVE TypeOK'
    <2>1. StatusAsked(q) \in NodeStatus
      BY <1>2 DEF SaveNode, NodeOp, StatusAsked, NodeStatus
    <2>2. node' \in NodeStatus /\ asked' \in NodeStatus
      BY <1>2, <2>1 DEF SaveNode, WriteNode
    <2>3. whole' \in BOOLEAN /\ {raced, crossed, undone}' \subseteq BOOLEAN
      BY <1>2 DEF SaveNode, WriteNode
    <2>4. at' = [at EXCEPT ![q] = IF op[q] = "delete" THEN "saved" ELSE "done"]
      BY <1>2 DEF SaveNode, Move
    <2> QED BY <1>2, <2>2, <2>3, <2>4 DEF SaveNode
  <1>3. ASSUME NEW q \in Request, SendDelete(q) PROVE TypeOK'
    BY <1>3 DEF SendDelete, Move
  <1>4. ASSUME NEW q \in Request, NEW o \in Op, LoadSchedule(q, o) PROVE TypeOK'
    <2>1. crossed' \in BOOLEAN
      BY <1>4 DEF LoadSchedule
    <2>2. op' \in [Request -> Op \cup {"none"}]
      BY <1>4 DEF LoadSchedule
    <2>3. CASE o = "create"
      <3>1. PICK s \in {"ACTIVE", "PAUSED"} : sched' = s /\ seen' = [seen EXCEPT ![q] = s]
        BY <1>4, <2>3 DEF LoadSchedule
      <3>2. seen' \in [Request -> NodeStatus]
        BY <3>1 DEF NodeStatus
      <3>3. at' = [at EXCEPT ![q] = "saved"] /\ seenLink' = [seenLink EXCEPT ![q] = FALSE]
        BY <1>4, <2>3 DEF LoadSchedule, Move
      <3> QED BY <1>4, <2>1, <2>2, <3>1, <3>2, <3>3 DEF LoadSchedule
    <2>4. CASE o # "create"
      BY <1>4, <2>1, <2>2, <2>4 DEF LoadSchedule, Move, NodeStatus
    <2> QED BY <2>3, <2>4
  <1>5. ASSUME NEW q \in Request, SaveSchedule(q) PROVE TypeOK'
    <2>1. CASE node = "gone" \/ (seenLink[q] /\ beat = "none")
      BY <1>5, <2>1 DEF SaveSchedule, OnSchedule, Break, Move
    <2>2. CASE ~ (node = "gone" \/ (seenLink[q] /\ beat = "none"))
      <3>1. StatusSaved(q) \in {"ACTIVE", "PAUSED"}
        BY <1>5, <2>2 DEF SaveSchedule, StatusSaved, ScheduleSeen, ScheduleOp
      <3> QED BY <1>5, <2>2, <3>1 DEF SaveSchedule, OnSchedule, Move, NodeStatus
    <2> QED BY <2>1, <2>2
  <1>0. ASSUME NEW q \in Request, Break(q) PROVE TypeOK'
    BY <1>0 DEF OnSchedule, Break, Move
  <1>6. ASSUME NEW q \in Request, FetchBeat(q) PROVE TypeOK'
    <2>1. CASE ~ Break(q)
      BY <1>6, <2>1 DEF FetchBeat, OnSchedule, Move
    <2> QED BY <1>0, <2>1
  <1>7. ASSUME NEW q \in Request, UpdateBeat(q) PROVE TypeOK'
    BY <1>7 DEF UpdateBeat, OnSchedule, Move, BeatFor
  <1>8. ASSUME NEW q \in Request, CreateBeat(q) PROVE TypeOK'
    <2>1. CASE ~ Break(q)
      BY <1>8, <2>1 DEF CreateBeat, OnSchedule, Move, BeatFor
    <2> QED BY <1>0, <2>1
  <1>9. ASSUME NEW q \in Request, LinkBeat(q) PROVE TypeOK'
    <2>1. CASE ~ Break(q)
      BY <1>9, <2>1 DEF LinkBeat, OnSchedule, Move
    <2> QED BY <1>0, <2>1
  <1>10. ASSUME NEW q \in Request, DestroyBeat(q) PROVE TypeOK'
    <2>1. CASE ~ Break(q)
      BY <1>10, <2>1 DEF DestroyBeat, OnSchedule, Move
    <2> QED BY <1>0, <2>1
  <1>11. ASSUME NEW q \in Request, DestroyRow(q) PROVE TypeOK'
    BY <1>11 DEF DestroyRow, OnSchedule, Move
  <1>12. ASSUME NEW q \in Request, PurgeStart(q) PROVE TypeOK'
    <2>1. late' \subseteq Run /\ crossed' \in BOOLEAN
      BY <1>12 DEF PurgeStart, InFlight
    <2>2. doomed' \in [Request -> SUBSET Run]
      BY <1>12 DEF PurgeStart
    <2>3. purge' \in [Request -> Removing \cup {"none", "queued", "done", "dead"}]
      BY <1>12 DEF PurgeStart, SetPurge, Removing
    <2> QED BY <1>12, <2>1, <2>2, <2>3 DEF PurgeStart
  <1>13. ASSUME NEW q \in Request, NEW r \in Run, PurgeBackup(q, r) PROVE TypeOK'
    BY <1>13 DEF PurgeBackup
  <1>14. ASSUME NEW q \in Request, PurgeBeat(q) PROVE TypeOK'
    BY <1>14 DEF PurgeBeat, SetPurge, Removing
  <1>15. ASSUME NEW q \in Request, PurgeRows(q) PROVE TypeOK'
    BY <1>15 DEF PurgeRows, SetPurge, DropSchedule, Removing
  <1>16. ASSUME NEW q \in Request, PurgeNode(q) PROVE TypeOK'
    BY <1>16 DEF PurgeNode, SetPurge, DropSchedule
  <1>17. ASSUME NEW q \in Request, PurgeFail(q) PROVE TypeOK'
    <2>1. CASE tries[q] < MaxTries /\ SetPurge(q, "queued") /\ tries' = [tries EXCEPT ![q] = @ + 1]
      <3>1. tries' \in [Request -> 0 .. MaxTries]
        BY <2>1, LifecycleAssumption
      <3> QED BY <1>17, <2>1, <3>1 DEF PurgeFail, SetPurge
    <2>2. CASE SetPurge(q, "dead") /\ UNCHANGED tries
      BY <1>17, <2>2 DEF PurgeFail, SetPurge
    <2> QED BY <1>17, <2>1, <2>2 DEF PurgeFail
  <1>18. ASSUME NEW r \in Run, Fire(r) PROVE TypeOK'
    BY <1>18 DEF Fire, Advance
  <1>19. ASSUME NEW r \in Run, Gate(r) PROVE TypeOK'
    BY <1>19 DEF Gate, Advance, Holding
  <1>20. ASSUME NEW r \in Run, Initiated(r) PROVE TypeOK'
    BY <1>20 DEF Initiated, Advance, Overwrite, WriteNode, NodeStatus, Holding
  <1>21. ASSUME NEW r \in Run, Dumped(r) PROVE TypeOK'
    BY <1>21 DEF Dumped, Advance, Holding
  <1>22. ASSUME NEW r \in Run, Over(r) PROVE TypeOK'
    BY <1>22 DEF Over, Advance, Overwrite, WriteNode, NodeStatus
  <1>23. ASSUME NEW r \in Run, DumpFails(r) PROVE TypeOK'
    BY <1>23 DEF DumpFails, Advance, Settle
  <1>24. ASSUME NEW r \in Run, TimeLimit(r) PROVE TypeOK'
    BY <1>24 DEF TimeLimit, Advance, Settle, Overwrite, WriteNode, NodeStatus
  <1>25. ASSUME NEW r \in Run, Cancel(r) PROVE TypeOK'
    BY <1>25 DEF Cancel, Advance, Settle, Overwrite, WriteNode, NodeStatus
  <1>26. ASSUME NEW r \in Run, UploadBegin(r) PROVE TypeOK'
    BY <1>26 DEF UploadBegin
  <1>27. ASSUME NEW r \in Run, UploadStore(r) PROVE TypeOK'
    BY <1>27 DEF UploadStore
  <1>28. ASSUME NEW r \in Run, Finalize(r) PROVE TypeOK'
    BY <1>28 DEF Finalize, Settle
  <1>29. CASE UNCHANGED vars
    BY <1>29 DEF vars
  <1> QED
    BY <1>1, <1>2, <1>3, <1>4, <1>5, <1>6, <1>7, <1>8, <1>9, <1>10, <1>11, <1>12, <1>13, <1>14,
       <1>15, <1>16, <1>17, <1>18, <1>19, <1>20, <1>21, <1>22, <1>23, <1>24, <1>25, <1>26, <1>27,
       <1>28, <1>29
    DEF Next, RequestStep, PurgeStep, RunStep

LEMMA StepScheduleSeen == TypeOK /\ ScheduleSeen /\ [Next]_vars => ScheduleSeen'
  <1> SUFFICES ASSUME TypeOK, ScheduleSeen, [Next]_vars PROVE ScheduleSeen'
    OBVIOUS
  <1> USE DEF ScheduleSeen
  <1>1. ASSUME NEW q \in Request, NEW o \in Op, LoadNode(q, o) PROVE ScheduleSeen'
    <2>1. op' = [op EXCEPT ![q] = o] /\ seen' = [seen EXCEPT ![q] = node] /\ o \notin ScheduleOp
      BY <1>1 DEF LoadNode, NodeOp, ScheduleOp
    <2> QED BY <2>1 DEF TypeOK
  <1>2. ASSUME NEW q \in Request, NEW o \in Op, LoadSchedule(q, o) PROVE ScheduleSeen'
    <2>1. PICK s \in {"ACTIVE", "PAUSED"} : seen' = [seen EXCEPT ![q] = s]
      BY <1>2 DEF LoadSchedule
    <2>2. op' = [op EXCEPT ![q] = o]
      BY <1>2 DEF LoadSchedule
    <2> QED BY <2>1, <2>2 DEF TypeOK
  <1>3. ASSUME NEW q \in Request, SaveSchedule(q) PROVE ScheduleSeen'
    <2>1. op' = op
      BY <1>3 DEF SaveSchedule, Break, OnSchedule
    <2>2. seen' = seen \/ seen' = [seen EXCEPT ![q] = StatusSaved(q)]
      BY <1>3 DEF SaveSchedule, Break
    <2>3. StatusSaved(q) \in {"ACTIVE", "PAUSED"}
      BY <1>3 DEF SaveSchedule, StatusSaved, ScheduleOp
    <2> QED BY <2>1, <2>2, <2>3 DEF TypeOK
  <1>4. ASSUME UNCHANGED <<op, seen>> PROVE ScheduleSeen'
    BY <1>4
  <1>5. ASSUME NEW q \in Request,
               \/ SaveNode(q) \/ SendDelete(q) \/ FetchBeat(q) \/ UpdateBeat(q) \/ CreateBeat(q)
               \/ LinkBeat(q) \/ DestroyBeat(q) \/ DestroyRow(q)
        PROVE  UNCHANGED <<op, seen>>
    BY <1>5 DEF SaveNode, SendDelete, FetchBeat, UpdateBeat, CreateBeat, LinkBeat, DestroyBeat,
                DestroyRow, OnSchedule, Break
  <1>6. ASSUME NEW q \in Request, PurgeStep(q) PROVE UNCHANGED <<op, seen>>
    BY <1>6 DEF PurgeStep, PurgeStart, PurgeBackup, PurgeBeat, PurgeRows, PurgeNode, PurgeFail,
                request
  <1>7. ASSUME NEW r \in Run, RunStep(r) \/ Fire(r) \/ TimeLimit(r) \/ Cancel(r)
        PROVE  UNCHANGED <<op, seen>>
    BY <1>7 DEF RunStep, Fire, Gate, Initiated, Dumped, Over, DumpFails, TimeLimit, Cancel,
                UploadBegin, UploadStore, Finalize, request
  <1>8. CASE UNCHANGED vars
    BY <1>8 DEF vars
  <1> QED
    BY <1>1, <1>2, <1>3, <1>4, <1>5, <1>6, <1>7, <1>8 DEF Next, RequestStep

LEMMA TypeInvariant == Spec => [](TypeOK /\ ScheduleSeen)
  <1>1. Init => TypeOK /\ ScheduleSeen
    BY InitTypeOK DEF Init, ScheduleSeen
  <1> QED BY <1>1, StepTypeOK, StepScheduleSeen, PTL DEF Spec

\* Every variable keeps its type.
THEOREM TypeCorrect == Spec => []TypeOK
  BY TypeInvariant, PTL

-----------------------------------------------------------------------------
(* The status of the node.                                                 *)

\* Who may still write the node's row would write what was last asked for.
StatusInv ==
    ~ raced =>
        /\ node = asked \/ (node = "gone" /\ asked = "DELETE_REQUESTED")
        /\ \A q \in NodeHolders : seen[q] = asked
        /\ RunHolders # {} => asked = "ACTIVE"
        /\ Purging # {} => asked = "DELETE_REQUESTED"

LEMMA InitStatusInv == Init => StatusInv
  BY DEF Init, StatusInv, NodeHolders, RunHolders, Purging, Holding, Removing

\* A step that neither writes the row nor gives it to anybody.
LEMMA StatusUntouched ==
    ASSUME StatusInv, UNCHANGED <<node, asked, raced>>,
           \A q \in NodeHolders' : q \in NodeHolders /\ seen'[q] = seen[q],
           RunHolders' \subseteq RunHolders, Purging' \subseteq Purging
    PROVE  StatusInv'
  BY DEF StatusInv

LEMMA StatusOfRequest ==
    ASSUME TypeOK, StatusInv, NEW q \in Request, RequestStep(q)
    PROVE  StatusInv'
  <1>1. CASE SaveNode(q)
    <2>1. UNCHANGED <<op, seen, purge, pc>> /\ at' = [at EXCEPT ![q] = at'[q]] /\ at'[q] # "loaded"
      BY <1>1 DEF SaveNode, Move, deletion, backup, TypeOK
    <2>2. NodeHolders' = NodeHolders \ {q} /\ RunHolders' = RunHolders /\ Purging' = Purging
      BY <2>1 DEF NodeHolders, RunHolders, Purging, TypeOK
    <2>3. q \in NodeHolders /\ node' = StatusAsked(q)
      BY <1>1 DEF SaveNode, WriteNode, NodeHolders
    <2>4. CASE op[q] = "edit"
      <3>1. UNCHANGED <<asked, raced>> /\ StatusAsked(q) = seen[q]
        BY <1>1, <2>4 DEF SaveNode, StatusAsked
      <3> QED BY <2>1, <2>2, <2>3, <3>1 DEF StatusInv
    <2>5. CASE op[q] # "edit"
      <3>1. asked' = node' /\ raced' = (NodeHolders # {q} \/ RunHolders # {} \/ Purging # {})
        BY <1>1, <2>3, <2>5 DEF SaveNode
      <3> QED BY <2>2, <3>1 DEF StatusInv
    <2> QED BY <2>4, <2>5
  <1>2. CASE SendDelete(q)
    <2>1. /\ UNCHANGED <<node, asked, raced, op, seen, pc>>
          /\ at' = [at EXCEPT ![q] = "done"]
          /\ purge' = purge \/ purge' = [purge EXCEPT ![q] = "queued"]
      BY <1>2 DEF SendDelete, Move, backup, nodeHistory
    <2>2. NodeHolders' \subseteq NodeHolders /\ RunHolders' = RunHolders
      BY <2>1 DEF NodeHolders, RunHolders, TypeOK
    <2>3. Purging' \subseteq Purging
      BY <2>1 DEF Purging, Removing, TypeOK
    <2> QED BY <2>1, <2>2, <2>3, StatusUntouched
  <1>3. CASE ~ SaveNode(q) /\ ~ SendDelete(q)
    <2>1. /\ UNCHANGED <<node, asked, raced, op, purge, pc>>
          /\ at' = [at EXCEPT ![q] = at'[q]] /\ at'[q] # "loaded"
      BY <1>3 DEF RequestStep, SaveSchedule, FetchBeat, UpdateBeat, CreateBeat, LinkBeat,
                  DestroyBeat, DestroyRow, OnSchedule, Break, Move, deletion, backup, nodeHistory,
                  TypeOK
    <2>2. seen' = seen \/ seen' = [seen EXCEPT ![q] = StatusSaved(q)]
      BY <1>3 DEF RequestStep, SaveSchedule, FetchBeat, UpdateBeat, CreateBeat, LinkBeat,
                  DestroyBeat, DestroyRow, Break
    <2>3. /\ \A p \in NodeHolders' : p \in NodeHolders /\ seen'[p] = seen[p]
          /\ RunHolders' = RunHolders /\ Purging' = Purging
      BY <2>1, <2>2 DEF NodeHolders, RunHolders, Purging, TypeOK
    <2> QED BY <2>1, <2>3, StatusUntouched
  <1> QED BY <1>1, <1>2, <1>3

LEMMA StatusOfLoad ==
    ASSUME TypeOK, StatusInv, NEW q \in Request, NEW o \in Op, LoadNode(q, o) \/ LoadSchedule(q, o)
    PROVE  StatusInv'
  <1>1. UNCHANGED <<node, asked, raced, purge, pc>> /\ op' = [op EXCEPT ![q] = o]
    BY DEF LoadNode, LoadSchedule, deletion, backup, nodeHistory
  <1>2. RunHolders' = RunHolders /\ Purging' = Purging
    BY <1>1 DEF RunHolders, Purging
  <1>3. CASE LoadNode(q, o)
    <2>1. /\ at' = [at EXCEPT ![q] = "loaded"] /\ seen' = [seen EXCEPT ![q] = node] /\ node # "gone"
      BY <1>3 DEF LoadNode, Move
    <2>2. \A p \in NodeHolders' : p = q \/ (p \in NodeHolders /\ seen'[p] = seen[p])
      BY <1>1, <2>1 DEF NodeHolders, TypeOK
    <2>3. seen'[q] = node
      BY <2>1 DEF TypeOK
    <2> QED BY <1>1, <1>2, <2>1, <2>2, <2>3 DEF StatusInv
  <1>4. CASE LoadSchedule(q, o)
    <2>1. /\ o \notin NodeOp
          /\ at' = [at EXCEPT ![q] = at'[q]]
          /\ \E s \in NodeStatus \cup {"none", "gone"} : seen' = [seen EXCEPT ![q] = s]
      BY <1>4 DEF LoadSchedule, Move, NodeOp, ScheduleOp, TypeOK, NodeStatus
    <2>2. \A p \in NodeHolders' : p \in NodeHolders /\ seen'[p] = seen[p]
      BY <1>1, <2>1 DEF NodeHolders, TypeOK
    <2> QED BY <1>1, <1>2, <2>2, StatusUntouched
  <1> QED BY <1>3, <1>4

LEMMA StatusOfPurge ==
    ASSUME TypeOK, StatusInv, NEW q \in Request, PurgeStep(q)
    PROVE  StatusInv'
  <1>1. UNCHANGED <<asked, raced, op, at, seen, pc>>
    BY DEF PurgeStep, PurgeStart, PurgeBackup, PurgeBeat, PurgeRows, PurgeNode, PurgeFail, request,
           backup, nodeHistory
  <1>2. NodeHolders' = NodeHolders /\ RunHolders' = RunHolders
    BY <1>1 DEF NodeHolders, RunHolders
  <1>3. CASE PurgeStart(q)
    <2>1. UNCHANGED node
      BY <1>3 DEF PurgeStart
    <2>2. CASE node = "DELETE_REQUESTED"
      BY <1>1, <1>2, <2>1, <2>2 DEF StatusInv
    <2>3. CASE node # "DELETE_REQUESTED"
      <3>1. purge' = [purge EXCEPT ![q] = "done"]
        BY <1>3, <2>3 DEF PurgeStart, SetPurge
      <3>2. Purging' \subseteq Purging
        BY <3>1 DEF Purging, Removing, TypeOK
      <3> QED BY <1>1, <1>2, <2>1, <3>2, StatusUntouched
    <2> QED BY <2>2, <2>3
  <1>4. CASE PurgeNode(q)
    <2>1. node' = "gone" /\ purge' = [purge EXCEPT ![q] = "done"] /\ q \in Purging
      BY <1>4 DEF PurgeNode, SetPurge, Purging, Removing
    <2>2. Purging' \subseteq Purging
      BY <2>1 DEF Purging, Removing, TypeOK
    <2> QED BY <1>1, <1>2, <2>1, <2>2 DEF StatusInv
  <1>5. CASE ~ PurgeStart(q) /\ ~ PurgeNode(q)
    <2>1. UNCHANGED node
      BY <1>5 DEF PurgeStep, PurgeBackup, PurgeBeat, PurgeRows, PurgeFail
    <2>2. \/ purge' = purge
          \/ q \in Purging /\ purge' = [purge EXCEPT ![q] = purge'[q]]
      BY <1>5 DEF PurgeStep, PurgeBackup, PurgeBeat, PurgeRows, PurgeFail, PurgeBroken, SetPurge,
                  Purging, Removing, TypeOK
    <2>3. Purging' \subseteq Purging
      BY <2>2 DEF Purging, TypeOK
    <2> QED BY <1>1, <1>2, <2>1, <2>3, StatusUntouched
  <1> QED BY <1>3, <1>4, <1>5

LEMMA StatusOfRun ==
    ASSUME TypeOK, StatusInv, NEW r \in Run, RunStep(r) \/ Fire(r) \/ TimeLimit(r) \/ Cancel(r)
    PROVE  StatusInv'
  <1>1. UNCHANGED <<asked, op, at, seen, purge>>
    BY DEF RunStep, Fire, Gate, Initiated, Dumped, Over, DumpFails, TimeLimit, Cancel, UploadBegin,
           UploadStore, Finalize, request, deletion, nodeHistory, Overwrite
  <1>2. NodeHolders' = NodeHolders /\ Purging' = Purging
    BY <1>1 DEF NodeHolders, Purging
  <1>3. CASE Gate(r)
    <2>1. UNCHANGED <<node, raced>> /\ pc' = [pc EXCEPT ![r] = pc'[r]]
          /\ (pc'[r] = "over" \/ node = "ACTIVE")
      BY <1>3 DEF Gate, Advance, nodeHistory, TypeOK
    <2>2. node # "ACTIVE" => RunHolders' \subseteq RunHolders
      BY <2>1 DEF RunHolders, Holding, TypeOK
    <2>3. CASE node = "ACTIVE"
      BY <1>1, <1>2, <2>1, <2>3 DEF StatusInv
    <2>4. CASE node # "ACTIVE"
      BY <1>1, <1>2, <2>1, <2>2, <2>4, StatusUntouched
    <2> QED BY <2>3, <2>4
  <1>4. CASE Initiated(r) \/ Over(r) \/ TimeLimit(r)
    <2>1. /\ node' = "ACTIVE" /\ UNCHANGED raced /\ r \in RunHolders
          /\ pc' = [pc EXCEPT ![r] = pc'[r]]
      BY <1>4 DEF Initiated, Over, TimeLimit, Overwrite, WriteNode, Advance, RunHolders, Holding,
                  TypeOK
    <2>2. RunHolders' \subseteq RunHolders
      BY <2>1 DEF RunHolders, TypeOK
    <2> QED BY <1>1, <1>2, <2>1, <2>2 DEF StatusInv
  <1>5. CASE Cancel(r)
    BY <1>5 DEF Cancel, StatusInv
  <1>6. CASE Fire(r) \/ Dumped(r) \/ DumpFails(r) \/ UploadBegin(r) \/ UploadStore(r) \/ Finalize(r)
    <2>1. UNCHANGED <<node, raced>>
      BY <1>6 DEF Fire, Dumped, DumpFails, UploadBegin, UploadStore, Finalize, nodeHistory
    <2>2. \/ UNCHANGED pc
          \/ /\ pc' = [pc EXCEPT ![r] = pc'[r]]
             /\ pc'[r] \in Holding => r \in RunHolders
      BY <1>6 DEF Fire, Dumped, DumpFails, UploadBegin, UploadStore, Finalize, Advance, RunHolders,
                  Holding, TypeOK
    <2>3. RunHolders' \subseteq RunHolders
      BY <2>2 DEF RunHolders, TypeOK
    <2> QED BY <1>1, <1>2, <2>1, <2>3, StatusUntouched
  <1> QED BY <1>3, <1>4, <1>5, <1>6 DEF RunStep

LEMMA StatusInvariant == Spec => []StatusInv
  <1>1. TypeOK /\ StatusInv /\ [Next]_vars => StatusInv'
    <2> SUFFICES ASSUME TypeOK, StatusInv, [Next]_vars PROVE StatusInv'
      OBVIOUS
    <2>1. CASE UNCHANGED vars
      BY <2>1 DEF vars, StatusInv, NodeHolders, RunHolders, Purging
    <2> QED BY <2>1, StatusOfRequest, StatusOfLoad, StatusOfPurge, StatusOfRun DEF Next
  <1> QED BY <1>1, InitStatusInv, TypeCorrect, PTL DEF Spec

\* The node has the status last asked for (CoreNodeView's pause, resume, delete), whatever
\* backups, deletions and requests come later: only who held the row at that moment, or a
\* cancel, can overwrite it.
THEOREM StatusSurvives == Spec => []StatusIsLastAsked
  <1>1. StatusInv => StatusIsLastAsked
    BY DEF StatusInv, StatusIsLastAsked
  <1> QED BY <1>1, StatusInvariant, PTL

-----------------------------------------------------------------------------
(* The copies of a deleted node.                                           *)

Excused == late \cup refused

\* A backup without a row has nothing; one whose row is deleted has a copy only for a reason.
RowsTellCopies ==
    \A r \in Run :
        /\ row[r] = "none" => r \notin copies \cup InFlight
        /\ row[r] \in {"deleted", "gone"} =>
               /\ r \in copies => r \in Excused
               /\ r \in InFlight => r \in late

\* Once the node's row was deleted it never has its sub-row again, and no backup starts.
GoneStaysBroken ==
    /\ node = "gone" => ~ whole
    /\ ~ whole => copies \subseteq Excused /\ InFlight \subseteq late

\* A deletion under way has dealt with every copy, or has it on its list.
PurgeCovers ==
    \A q \in Purging :
        /\ InFlight \subseteq late
        /\ copies \subseteq Excused \cup doomed[q]
        /\ purge[q] \in {"rows", "node"} => doomed[q] = {}

CopiesInv == RowsTellCopies /\ GoneStaysBroken /\ PurgeCovers

LEMMA InitCopiesInv == Init => CopiesInv
  BY DEF Init, CopiesInv, RowsTellCopies, GoneStaysBroken, PurgeCovers, Excused, InFlight, Purging,
         Holding, Removing

\* A step that stores and deletes nothing, starts no backup and no deletion.
LEMMA CopiesUntouched ==
    ASSUME CopiesInv, UNCHANGED <<whole, doomed, copies, late, refused>>,
           node' = "gone" => node = "gone", InFlight' \subseteq InFlight,
           \A r \in Run : row'[r] = row[r] \/ row'[r] \in {"active", "settled"},
           \A q \in Purging' : q \in Purging /\ purge'[q] = purge[q]
    PROVE  CopiesInv'
  <1>1. Excused' = Excused
    BY DEF Excused
  <1>2. RowsTellCopies'
    <2> SUFFICES ASSUME NEW r \in Run
                 PROVE  /\ row'[r] = "none" => r \notin copies /\ r \notin InFlight'
                        /\ row'[r] \in {"deleted", "gone"} =>
                               (r \in copies => r \in Excused) /\ (r \in InFlight' => r \in late)
      BY <1>1 DEF RowsTellCopies
    <2> QED BY DEF CopiesInv, RowsTellCopies
  <1>3. GoneStaysBroken'
    BY <1>1 DEF CopiesInv, GoneStaysBroken
  <1>4. PurgeCovers'
    BY <1>1 DEF CopiesInv, PurgeCovers
  <1> QED BY <1>2, <1>3, <1>4 DEF CopiesInv

\* The row of the node is written: its sub-row does not come back with it.
LEMMA WriteKeepsWhole ==
    ASSUME TypeOK, CopiesInv, NEW s \in NodeStatus, WriteNode(s)
    PROVE  UNCHANGED whole /\ node' # "gone"
  BY DEF WriteNode, CopiesInv, GoneStaysBroken, NodeStatus, TypeOK

LEMMA CopiesOfRequest ==
    ASSUME TypeOK, CopiesInv, NEW q \in Request, NEW o,
           RequestStep(q) \/ LoadNode(q, o) \/ LoadSchedule(q, o)
    PROVE  CopiesInv'
  <1>1. UNCHANGED <<doomed, copies, late, refused, row, pc, upload>>
    BY DEF RequestStep, SaveNode, SendDelete, LoadNode, LoadSchedule, SaveSchedule, FetchBeat,
           UpdateBeat, CreateBeat, LinkBeat, DestroyBeat, DestroyRow, OnSchedule, Break, deletion,
           backup, copyHistory
  <1>2. UNCHANGED whole /\ (node' = "gone" => node = "gone")
    <2>1. CASE SaveNode(q)
      <3>1. StatusAsked(q) \in NodeStatus
        BY <2>1 DEF SaveNode, StatusAsked, NodeOp, NodeStatus, TypeOK
      <3> QED BY <2>1, <3>1, WriteKeepsWhole DEF SaveNode
    <2>2. CASE ~ SaveNode(q)
      BY <2>2 DEF RequestStep, SendDelete, LoadNode, LoadSchedule, SaveSchedule, FetchBeat,
                  UpdateBeat, CreateBeat, LinkBeat, DestroyBeat, DestroyRow, OnSchedule, Break
    <2> QED BY <2>1, <2>2
  <1>3. purge' = purge \/ purge' = [purge EXCEPT ![q] = "queued"]
    BY DEF RequestStep, SaveNode, SendDelete, LoadNode, LoadSchedule, SaveSchedule, FetchBeat,
           UpdateBeat, CreateBeat, LinkBeat, DestroyBeat, DestroyRow, OnSchedule, Break, deletion
  <1>4. \A p \in Purging' : p \in Purging /\ purge'[p] = purge[p]
    BY <1>3 DEF Purging, Removing, TypeOK
  <1>5. InFlight' = InFlight
    BY <1>1 DEF InFlight
  <1> QED BY <1>1, <1>2, <1>4, <1>5, CopiesUntouched

LEMMA CopiesOfPurgeStart ==
    ASSUME TypeOK, CopiesInv, NEW q \in Request, PurgeStart(q)
    PROVE  CopiesInv'
  <1>1. UNCHANGED <<node, whole, row, copies, refused, pc, upload>> /\ InFlight' = InFlight
    BY DEF PurgeStart, backup, InFlight
  <1>2. CASE node # "DELETE_REQUESTED"
    <2>1. UNCHANGED <<doomed, late>> /\ purge' = [purge EXCEPT ![q] = "done"]
      BY <1>2 DEF PurgeStart, SetPurge
    <2>2. \A p \in Purging' : p \in Purging /\ purge'[p] = purge[p]
      BY <2>1 DEF Purging, Removing, TypeOK
    <2> QED BY <1>1, <2>1, <2>2, CopiesUntouched
  <1>3. CASE node = "DELETE_REQUESTED"
    <2>1. /\ purge' = [purge EXCEPT ![q] = IF whole THEN "backups" ELSE "node"]
          /\ doomed' = [doomed EXCEPT ![q] =
                            IF whole THEN {r \in Run : row[r] \in {"active", "settled"}} ELSE {}]
          /\ late' = late \cup InFlight
      BY <1>3 DEF PurgeStart, SetPurge
    <2>2. Excused' = Excused \cup InFlight
      BY <1>1, <2>1 DEF Excused
    <2>3. RowsTellCopies'
      BY <1>1, <2>1, <2>2 DEF CopiesInv, RowsTellCopies
    <2>4. GoneStaysBroken'
      BY <1>1, <2>1, <2>2 DEF CopiesInv, GoneStaysBroken
    <2>5. PurgeCovers'
      <3>1. ASSUME NEW p \in Purging', p # q
            PROVE  p \in Purging /\ purge'[p] = purge[p] /\ doomed'[p] = doomed[p]
        BY <2>1, <3>1 DEF Purging, TypeOK
      <3>2. /\ purge'[q] = (IF whole THEN "backups" ELSE "node")
            /\ doomed'[q] = (IF whole THEN {r \in Run : row[r] \in {"active", "settled"}} ELSE {})
        BY <2>1 DEF TypeOK
      <3>3. copies \subseteq Excused \cup doomed'[q]
        <4>1. CASE whole
          <5>1. ASSUME NEW r \in copies PROVE r \in Excused \/ row[r] \in {"active", "settled"}
            BY DEF CopiesInv, RowsTellCopies, TypeOK
          <5> QED BY <3>2, <4>1, <5>1 DEF TypeOK
        <4>2. CASE ~ whole
          BY <4>2 DEF CopiesInv, GoneStaysBroken
        <4> QED BY <4>1, <4>2
      <3> QED BY <1>1, <2>1, <2>2, <3>1, <3>2, <3>3 DEF CopiesInv, PurgeCovers
    <2> QED BY <2>3, <2>4, <2>5 DEF CopiesInv
  <1> QED BY <1>2, <1>3

LEMMA CopiesOfPurgeBackup ==
    ASSUME TypeOK, CopiesInv, NEW q \in Request, NEW r \in Run, PurgeBackup(q, r)
    PROVE  CopiesInv'
  <1>1. /\ purge[q] = "backups" /\ q \in Purging
        /\ doomed' = [doomed EXCEPT ![q] = @ \ {r}]
        /\ row' = [row EXCEPT ![r] = "deleted"]
        /\ UNCHANGED <<node, whole, purge, pc, upload, late>>
    BY DEF PurgeBackup, Purging, Removing
  <1>2. \/ copies' = copies \ {r} /\ refused' = refused
        \/ copies' = copies /\ refused' = refused \cup {r}
    BY DEF PurgeBackup
  <1>3. /\ copies' \subseteq copies /\ Excused \subseteq Excused' /\ InFlight' = InFlight
        /\ r \in copies' => r \in Excused'
        /\ Purging' = Purging /\ InFlight \subseteq late
    BY <1>1, <1>2 DEF Excused, InFlight, Purging, CopiesInv, PurgeCovers
  <1>4. RowsTellCopies'
    <2>1. row'[r] = "deleted" /\ \A b \in Run : b # r => row'[b] = row[b]
      BY <1>1 DEF TypeOK
    <2> QED BY <1>1, <1>3, <2>1 DEF CopiesInv, RowsTellCopies
  <1>5. GoneStaysBroken'
    BY <1>1, <1>3 DEF CopiesInv, GoneStaysBroken
  <1>6. PurgeCovers'
    <2>1. doomed'[q] = doomed[q] \ {r} /\ \A p \in Request : p # q => doomed'[p] = doomed[p]
      BY <1>1 DEF TypeOK
    <2>2. ASSUME NEW p \in Purging PROVE copies' \subseteq Excused' \cup doomed'[p]
      BY <1>2, <1>3, <2>1 DEF CopiesInv, PurgeCovers, Purging
    <2> QED BY <1>1, <1>3, <2>1, <2>2 DEF CopiesInv, PurgeCovers, Purging
  <1> QED BY <1>4, <1>5, <1>6 DEF CopiesInv

LEMMA CopiesOfPurge ==
    ASSUME TypeOK, CopiesInv, NEW q \in Request, PurgeStep(q)
    PROVE  CopiesInv'
  <1>1. CASE PurgeBeat(q) \/ PurgeRows(q)
    <2>1. /\ UNCHANGED <<node, whole, doomed, row, copies, late, refused, pc, upload>>
          /\ q \in Purging /\ doomed[q] = {}
          /\ purge' = [purge EXCEPT ![q] = purge'[q]]
      BY <1>1 DEF PurgeBeat, PurgeRows, SetPurge, backup, copyHistory, Purging, Removing, TypeOK,
                  CopiesInv, PurgeCovers
    <2>2. /\ Excused' = Excused /\ InFlight' = InFlight /\ Purging' \subseteq Purging
          /\ \A p \in Purging' : p # q => purge'[p] = purge[p]
      BY <2>1 DEF Excused, InFlight, Purging, TypeOK
    <2>3. RowsTellCopies' /\ GoneStaysBroken'
      BY <2>1, <2>2 DEF CopiesInv, RowsTellCopies, GoneStaysBroken
    <2>4. PurgeCovers'
      BY <2>1, <2>2 DEF CopiesInv, PurgeCovers
    <2> QED BY <2>3, <2>4 DEF CopiesInv
  <1>2. CASE PurgeNode(q)
    <2>1. /\ UNCHANGED <<doomed, copies, late, refused, pc, upload>>
          /\ q \in Purging /\ purge[q] = "node"
          /\ purge' = [purge EXCEPT ![q] = "done"]
          /\ whole' = FALSE
          /\ row' = [r \in Run |-> IF row[r] = "none" THEN "none" ELSE "gone"]
      BY <1>2 DEF PurgeNode, SetPurge, copyHistory, Purging, Removing
    <2>2. /\ Excused' = Excused /\ InFlight' = InFlight
          /\ \A p \in Purging' : p \in Purging /\ purge'[p] = purge[p]
      BY <2>1 DEF Excused, InFlight, Purging, Removing, TypeOK
    <2>3. copies \subseteq Excused /\ InFlight \subseteq late
      BY <2>1 DEF CopiesInv, PurgeCovers
    <2>4. RowsTellCopies'
      BY <2>1, <2>2, <2>3 DEF CopiesInv, RowsTellCopies
    <2>5. GoneStaysBroken' /\ PurgeCovers'
      BY <2>1, <2>2, <2>3 DEF CopiesInv, GoneStaysBroken, PurgeCovers
    <2> QED BY <2>4, <2>5 DEF CopiesInv
  <1>3. CASE PurgeFail(q)
    <2>1. /\ UNCHANGED <<node, whole, row, copies, late, refused, pc, upload>>
          /\ doomed' = [doomed EXCEPT ![q] = {}]
          /\ purge' = [purge EXCEPT ![q] = purge'[q]] /\ purge'[q] \notin Removing
      BY <1>3 DEF PurgeFail, SetPurge, backup, copyHistory, Removing, TypeOK
    <2>2. /\ Excused' = Excused /\ InFlight' = InFlight
          /\ \A p \in Purging' : p \in Purging /\ purge'[p] = purge[p] /\ doomed'[p] = doomed[p]
      BY <2>1 DEF Excused, InFlight, Purging, TypeOK
    <2> QED BY <2>1, <2>2 DEF CopiesInv, RowsTellCopies, GoneStaysBroken, PurgeCovers
  <1> QED BY <1>1, <1>2, <1>3, CopiesOfPurgeStart, CopiesOfPurgeBackup DEF PurgeStep

LEMMA CopiesOfGate ==
    ASSUME TypeOK, CopiesInv, NEW r \in Run, Gate(r)
    PROVE  CopiesInv'
  <1>1. UNCHANGED <<node, whole, doomed, purge, copies, refused, upload>> /\ Purging' = Purging
    BY DEF Gate, deletion, Purging
  <1>2. CASE pc' = [pc EXCEPT ![r] = "over"] /\ UNCHANGED <<row, late>>
    <2>1. InFlight' \subseteq InFlight
      BY <1>1, <1>2 DEF InFlight, Holding, TypeOK
    <2> QED BY <1>1, <1>2, <2>1, CopiesUntouched
  <1>3. CASE ~ (pc' = [pc EXCEPT ![r] = "over"] /\ UNCHANGED <<row, late>>)
    <2>1. /\ whole
          /\ pc' = [pc EXCEPT ![r] = "loaded"]
          /\ row' = [row EXCEPT ![r] = "active"]
          /\ late' = IF Purging # {} THEN late \cup {r} ELSE late
      BY <1>3 DEF Gate, Advance
    <2>2. InFlight' = InFlight \cup {r} /\ Excused \subseteq Excused' /\ late \subseteq late'
      BY <1>1, <2>1 DEF InFlight, Holding, Excused, TypeOK
    <2>3. row'[r] = "active" /\ \A b \in Run : b # r => row'[b] = row[b]
      BY <2>1 DEF TypeOK
    <2>4. RowsTellCopies'
      <3> SUFFICES ASSUME NEW b \in Run, b # r
                   PROVE  /\ row'[b] = "none" => b \notin copies' \cup InFlight'
                          /\ row'[b] \in {"deleted", "gone"} =>
                                 /\ b \in copies' => b \in Excused'
                                 /\ b \in InFlight' => b \in late'
        BY <2>3 DEF RowsTellCopies
      <3> QED BY <1>1, <2>2, <2>3 DEF CopiesInv, RowsTellCopies
    <2>5. GoneStaysBroken'
      BY <1>1, <2>1 DEF CopiesInv, GoneStaysBroken
    <2>6. PurgeCovers'
      BY <1>1, <2>1, <2>2 DEF CopiesInv, PurgeCovers
    <2> QED BY <2>4, <2>5, <2>6 DEF CopiesInv
  <1> QED BY <1>2, <1>3

LEMMA CopiesOfStore ==
    ASSUME TypeOK, CopiesInv, NEW r \in Run, UploadStore(r)
    PROVE  CopiesInv'
  <1>1. /\ r \in InFlight /\ copies' = copies \cup {r}
        /\ upload' = [upload EXCEPT ![r] = "stored"]
        /\ UNCHANGED <<node, whole, doomed, purge, row, pc, late, refused>>
    BY DEF UploadStore, InFlight, deletion, copyHistory
  <1>2. InFlight' = InFlight /\ Excused' = Excused /\ Purging' = Purging /\ late \subseteq Excused
    BY <1>1 DEF InFlight, Excused, Purging, TypeOK
  <1> QED BY <1>1, <1>2 DEF CopiesInv, RowsTellCopies, GoneStaysBroken, PurgeCovers

LEMMA CopiesOfRun ==
    ASSUME TypeOK, CopiesInv, NEW r \in Run, RunStep(r) \/ Fire(r) \/ TimeLimit(r) \/ Cancel(r)
    PROVE  CopiesInv'
  <1>1. CASE ~ Gate(r) /\ ~ UploadStore(r)
    <2>1. UNCHANGED <<doomed, purge, copies, late, refused>> /\ Purging' = Purging
      BY <1>1 DEF RunStep, Fire, Initiated, Dumped, Over, DumpFails, TimeLimit, Cancel, UploadBegin,
                  Finalize, deletion, copyHistory, Purging
    <2>2. UNCHANGED whole /\ (node' = "gone" => node = "gone")
      <3>1. CASE Overwrite("ACTIVE")
        BY <3>1, WriteKeepsWhole DEF Overwrite, NodeStatus
      <3>2. CASE ~ Overwrite("ACTIVE")
        BY <1>1, <3>2 DEF RunStep, Fire, Initiated, Dumped, Over, DumpFails, TimeLimit, Cancel,
                          UploadBegin, Finalize
      <3> QED BY <3>1, <3>2
    <2>3. \A b \in Run : row'[b] = row[b] \/ row'[b] \in {"active", "settled"}
      BY <1>1 DEF RunStep, Fire, Initiated, Dumped, Over, DumpFails, TimeLimit, Cancel, UploadBegin,
                  Finalize, Settle, TypeOK
    <2>4. InFlight' \subseteq InFlight
      BY <1>1 DEF RunStep, Fire, Initiated, Dumped, Over, DumpFails, TimeLimit, Cancel, UploadBegin,
                  Finalize, Advance, InFlight, Holding, backup, TypeOK
    <2> QED BY <2>1, <2>2, <2>3, <2>4, CopiesUntouched
  <1> QED BY <1>1, CopiesOfGate, CopiesOfStore

LEMMA CopiesInvariant == Spec => []CopiesInv
  <1>1. TypeOK /\ CopiesInv /\ [Next]_vars => CopiesInv'
    <2> SUFFICES ASSUME TypeOK, CopiesInv, [Next]_vars PROVE CopiesInv'
      OBVIOUS
    <2>1. CASE UNCHANGED vars
      BY <2>1, CopiesUntouched DEF vars, InFlight, Purging
    <2> QED BY <2>1, CopiesOfRequest, CopiesOfPurge, CopiesOfRun DEF Next
  <1> QED BY <1>1, InitCopiesInv, TypeCorrect, PTL DEF Spec

\* A node's deletion (node_delete_requested) leaves no copy at the storage but of backups in
\* flight while it ran and those the storage refused to delete, however often it was broken off,
\* repeated, undone and asked for again.
THEOREM DeletionClearsStorage == Spec => []DeletedLeavesOnlyLate
  <1>1. CopiesInv => DeletedLeavesOnlyLate
    BY DEF CopiesInv, GoneStaysBroken, Excused, DeletedLeavesOnlyLate
  <1> QED BY <1>1, CopiesInvariant, PTL

-----------------------------------------------------------------------------
(* The schedule and its beat entry.                                        *)

NoBeat == beat = "none" /\ ~ link

Synced ==
    /\ sched = "ACTIVE" => beat = "on" /\ link
    /\ sched = "PAUSED" => beat = "off" /\ link
    /\ sched \in {"none", "gone"} => NoBeat

\* What a request half way through has left and has in hand.
HalfWay(q) ==
    /\ sched = seen[q] \/ at[q] = "unlinked"
    /\ sched \in {"ACTIVE", "PAUSED"}
    /\ at[q] = "loaded" => Synced /\ seenLink[q]
    /\ at[q] = "saved" => IF seenLink[q] THEN beat # "none" /\ link ELSE NoBeat
    /\ at[q] = "fetched" => beat # "none" /\ link
    /\ at[q] = "created" => beat = BeatFor(q) /\ ~ link
    /\ at[q] = "unlinked" => NoBeat

\* Which requests can be where.
Phases ==
    \A q \in Request :
        /\ at[q] \in {"fetched", "created", "unlinked"} => op[q] \in ScheduleOp
        /\ at[q] # "done" => purge[q] = "none"

\* As long as nothing has crossed, at most one request is half way, none while a node is being
\* deleted, and otherwise the two rows agree or the deletion has taken the entry.
Agreement ==
    /\ \A p, q \in ScheduleHolders : p = q
    /\ \A q \in ScheduleHolders : HalfWay(q)
    /\ ScheduleHolders # {} => Purging = {}
    /\ ScheduleHolders = {} => Synced \/ (NoBeat /\ Purging # {})
    /\ \A q \in Purging : purge[q] \in {"rows", "node"} => NoBeat

BeatInv == Phases /\ (~ crossed => Agreement)

LEMMA InitBeatInv == Init => BeatInv
  BY DEF Init, BeatInv, Phases, Agreement, ScheduleHolders, Purging, Removing, Synced, NoBeat

\* A request of an operator goes on or ends; only SendDelete makes a deletion.
LEMMA PhasesOfRequest ==
    ASSUME TypeOK, Phases, NEW q \in Request, NEW o,
           RequestStep(q) \/ LoadNode(q, o) \/ LoadSchedule(q, o)
    PROVE  Phases' /\ Purging' = Purging /\ \A p \in Purging : purge'[p] = purge[p]
  <1>1. /\ at' = [at EXCEPT ![q] = at'[q]] /\ at[q] # "done"
        /\ purge' = purge \/ (at'[q] = "done" /\ purge' = [purge EXCEPT ![q] = "queued"])
    BY DEF RequestStep, SaveNode, SendDelete, LoadNode, LoadSchedule, SaveSchedule, FetchBeat,
           UpdateBeat, CreateBeat, LinkBeat, DestroyBeat, DestroyRow, OnSchedule, Break, Move,
           deletion, TypeOK
  <1>2. \/ op' = op /\ (at'[q] \in {"fetched", "created", "unlinked"} => op[q] \in ScheduleOp)
        \/ op' = [op EXCEPT ![q] = o] /\ at'[q] \in {"loaded", "saved"}
    BY DEF RequestStep, SaveNode, SendDelete, LoadNode, LoadSchedule, SaveSchedule, FetchBeat,
           UpdateBeat, CreateBeat, LinkBeat, DestroyBeat, DestroyRow, OnSchedule, Break, Move,
           TypeOK, ScheduleOp
  <1>3. Phases'
    BY <1>1, <1>2 DEF Phases, TypeOK
  <1>4. purge[q] = "none"
    BY <1>1 DEF Phases
  <1> QED BY <1>1, <1>3, <1>4 DEF Purging, Removing, TypeOK

\* A step that has nothing to do with the schedule.
LEMMA BeatUntouched ==
    ASSUME TypeOK, Agreement, UNCHANGED schedule, ScheduleHolders' = ScheduleHolders,
           \A q \in ScheduleHolders : at'[q] = at[q] /\ seen'[q] = seen[q] /\ seenLink'[q] = seenLink[q],
           Purging' = Purging, \A q \in Purging : purge'[q] = purge[q]
    PROVE  Agreement'
  <1>1. \A q \in ScheduleHolders : HalfWay(q)'
    BY DEF Agreement, HalfWay, Synced, NoBeat, BeatFor, schedule
  <1> QED BY <1>1 DEF Agreement, Synced, NoBeat, schedule

LEMMA BeatOfNodeRequest ==
    ASSUME TypeOK, Phases, Agreement, NEW q \in Request, NEW o,
           LoadNode(q, o) \/ SaveNode(q) \/ SendDelete(q)
    PROVE  Agreement'
  <1>1. Purging' = Purging /\ \A p \in Purging : purge'[p] = purge[p]
    BY PhasesOfRequest DEF RequestStep
  <1>2. /\ UNCHANGED <<schedule, seenLink>>
        /\ at' = [at EXCEPT ![q] = at'[q]]
        /\ \E s \in NodeStatus \cup {"gone"} : seen' = seen \/ seen' = [seen EXCEPT ![q] = s]
        /\ \/ op' = op /\ op[q] \notin ScheduleOp
           \/ op' = [op EXCEPT ![q] = o] /\ o \notin ScheduleOp /\ at[q] = "idle"
    BY DEF LoadNode, SaveNode, SendDelete, Move, NodeOp, ScheduleOp, TypeOK
  <1>3. q \notin ScheduleHolders /\ ScheduleHolders' = ScheduleHolders
    BY <1>2 DEF ScheduleHolders, TypeOK
  <1>4. \A p \in ScheduleHolders :
            at'[p] = at[p] /\ seen'[p] = seen[p] /\ seenLink'[p] = seenLink[p]
    BY <1>2, <1>3 DEF ScheduleHolders, TypeOK
  <1> QED BY <1>1, <1>2, <1>3, <1>4, BeatUntouched

LEMMA BeatOfLoad ==
    ASSUME TypeOK, BeatInv, NEW q \in Request, NEW o \in Op, LoadSchedule(q, o), ~ crossed'
    PROVE  Agreement'
  <1>1. ~ crossed /\ ScheduleHolders = {} /\ Purging = {}
    BY DEF LoadSchedule, TypeOK
  <1>2. Synced
    BY <1>1 DEF BeatInv, Agreement
  <1>3. /\ op' = [op EXCEPT ![q] = o] /\ o \in ScheduleOp
        /\ at' = [at EXCEPT ![q] = at'[q]] /\ at'[q] \in {"loaded", "saved"}
        /\ UNCHANGED <<purge, link, beat>>
    BY DEF LoadSchedule, Move, deletion, TypeOK
  <1>4. ScheduleHolders' = {q} /\ Purging' = {}
    BY <1>1, <1>3 DEF ScheduleHolders, Purging, TypeOK
  <1>5. HalfWay(q)'
    <2>1. CASE o = "create"
      <3>1. /\ sched = "none" /\ at'[q] = "saved" /\ sched' \in {"ACTIVE", "PAUSED"}
            /\ seen'[q] = sched' /\ seenLink'[q] = FALSE
        BY <2>1 DEF LoadSchedule, Move, TypeOK
      <3> QED BY <1>2, <1>3, <3>1 DEF HalfWay, Synced, NoBeat
    <2>2. CASE o # "create"
      <3>1. /\ sched \in {"ACTIVE", "PAUSED"} /\ at'[q] = "loaded" /\ sched' = sched
            /\ seen'[q] = sched /\ seenLink'[q] = link
        BY <2>2 DEF LoadSchedule, Move, TypeOK
      <3> QED BY <1>2, <1>3, <3>1 DEF HalfWay, Synced, NoBeat
    <2> QED BY <2>1, <2>2
  <1> QED BY <1>4, <1>5 DEF Agreement

LEMMA BeatOfRequest ==
    ASSUME TypeOK, ScheduleSeen, BeatInv, NEW q \in Request, ~ crossed',
           \/ SaveSchedule(q) \/ FetchBeat(q) \/ UpdateBeat(q) \/ CreateBeat(q) \/ LinkBeat(q)
           \/ DestroyBeat(q) \/ DestroyRow(q)
    PROVE  Agreement'
  <1>1. q \in ScheduleHolders
    BY DEF SaveSchedule, FetchBeat, UpdateBeat, CreateBeat, LinkBeat, DestroyBeat, DestroyRow,
           BeatInv, Phases, ScheduleHolders, ScheduleOp
  <1>2. ~ crossed /\ ~ Break(q)
    BY DEF SaveSchedule, FetchBeat, UpdateBeat, CreateBeat, LinkBeat, DestroyBeat, DestroyRow,
           OnSchedule, Break
  <1>3. ScheduleHolders = {q} /\ HalfWay(q) /\ Purging = {}
    BY <1>1, <1>2 DEF BeatInv, Agreement
  <1>4. /\ UNCHANGED <<op, seenLink, purge>>
        /\ at' = [at EXCEPT ![q] = at'[q]]
    BY DEF SaveSchedule, FetchBeat, UpdateBeat, CreateBeat, LinkBeat, DestroyBeat, DestroyRow,
           OnSchedule, Break, Move, deletion, TypeOK
  <1>5. /\ Purging' = {}
        /\ ScheduleHolders' = IF at'[q] \in {"idle", "done"} THEN {} ELSE {q}
    BY <1>1, <1>3, <1>4 DEF Purging, ScheduleHolders, TypeOK
  <1>6. SUFFICES IF at'[q] \in {"idle", "done"} THEN Synced' ELSE HalfWay(q)'
    BY <1>5 DEF Agreement
  <1>7. CASE SaveSchedule(q)
    <2>1. /\ at[q] = "loaded" /\ at'[q] = "saved"
          /\ sched' = StatusSaved(q) /\ seen' = [seen EXCEPT ![q] = StatusSaved(q)]
          /\ link' = seenLink[q] /\ beat' = beat
      BY <1>2, <1>7 DEF SaveSchedule, OnSchedule, Move, TypeOK
    <2>2. StatusSaved(q) \in {"ACTIVE", "PAUSED"} /\ seen'[q] = StatusSaved(q)
      BY <1>7, <2>1 DEF SaveSchedule, StatusSaved, ScheduleSeen, ScheduleOp, TypeOK
    <2> QED BY <1>3, <1>4, <2>1, <2>2 DEF HalfWay, Synced
  <1>8. CASE FetchBeat(q)
    <2>1. /\ at[q] = "saved" /\ seenLink[q] /\ at'[q] = "fetched"
          /\ UNCHANGED <<seen, sched, link, beat>>
      BY <1>2, <1>8 DEF FetchBeat, OnSchedule, Move, schedule, TypeOK
    <2> QED BY <1>3, <1>4, <2>1 DEF HalfWay
  <1>9. CASE UpdateBeat(q)
    <2>1. /\ at[q] = "fetched" /\ at'[q] = "done"
          /\ UNCHANGED <<seen, sched, link>> /\ beat' = BeatFor(q)
      BY <1>9 DEF UpdateBeat, OnSchedule, Move, TypeOK
    <2> QED BY <1>3, <2>1 DEF HalfWay, Synced, BeatFor
  <1>10. CASE CreateBeat(q)
    <2>1. /\ at[q] = "saved" /\ ~ seenLink[q] /\ at'[q] = "created"
          /\ UNCHANGED <<seen, sched, link>> /\ beat' = BeatFor(q)
      BY <1>2, <1>10 DEF CreateBeat, OnSchedule, Move, TypeOK
    <2> QED BY <1>3, <1>4, <2>1 DEF HalfWay, NoBeat, BeatFor
  <1>11. CASE LinkBeat(q)
    <2>1. /\ at[q] = "created" /\ at'[q] = "done"
          /\ UNCHANGED <<seen, sched, beat>> /\ link' = (beat # "none")
      BY <1>2, <1>11 DEF LinkBeat, OnSchedule, Move, TypeOK
    <2> QED BY <1>3, <2>1 DEF HalfWay, Synced, BeatFor
  <1>12. CASE DestroyBeat(q)
    <2>1. at[q] = "loaded" /\ UNCHANGED <<seen, sched>>
      BY <1>12 DEF DestroyBeat, Break, schedule
    <2>2. \/ at'[q] = "done" /\ UNCHANGED <<link, beat>>
          \/ /\ at'[q] = "unlinked"
             /\ beat' = IF seenLink[q] THEN "none" ELSE beat
             /\ link' = (link /\ ~ seenLink[q])
      BY <1>2, <1>12 DEF DestroyBeat, OnSchedule, Move, schedule, TypeOK
    <2> QED BY <1>3, <1>4, <2>1, <2>2 DEF HalfWay, Synced, NoBeat
  <1>13. CASE DestroyRow(q)
    <2>1. /\ at[q] = "unlinked" /\ at'[q] = "done" /\ sched' = "gone" /\ link' = FALSE
          /\ beat' = beat
      BY <1>13 DEF DestroyRow, OnSchedule, Move, TypeOK
    <2> QED BY <1>3, <2>1 DEF HalfWay, Synced, NoBeat
  <1> QED BY <1>7, <1>8, <1>9, <1>10, <1>11, <1>12, <1>13

LEMMA BeatOfPurge ==
    ASSUME TypeOK, BeatInv, NEW q \in Request, PurgeStep(q)
    PROVE  BeatInv'
  <1>1. /\ UNCHANGED <<op, at, seen, seenLink>> /\ ScheduleHolders' = ScheduleHolders
        /\ purge' = [purge EXCEPT ![q] = purge'[q]] /\ purge[q] \notin {"none", "done", "dead"}
    BY DEF PurgeStep, PurgeStart, PurgeBackup, PurgeBeat, PurgeRows, PurgeNode, PurgeFail,
           PurgeBroken, Removing, SetPurge, request, ScheduleHolders, TypeOK
  <1>2. Phases'
    BY <1>1 DEF BeatInv, Phases, TypeOK
  <1>3. ASSUME ~ crossed' PROVE Agreement'
    <2>1. ~ crossed
      BY <1>3 DEF PurgeStep, PurgeStart, PurgeBackup, PurgeBeat, PurgeRows, PurgeNode, PurgeFail
    <2>2. Agreement /\ ~ PurgeFail(q)
      BY <1>3, <2>1 DEF BeatInv, PurgeFail
    <2>3. CASE PurgeStart(q)
      <3>1. UNCHANGED schedule /\ purge[q] = "queued"
        BY <2>3 DEF PurgeStart
      <3>2. CASE node = "DELETE_REQUESTED"
        <4>1. ScheduleHolders = {} /\ purge'[q] = "backups"
          BY <1>3, <2>3, <3>2 DEF PurgeStart, SetPurge, TypeOK
        <4>2. Purging' = Purging \cup {q}
          BY <1>1, <4>1 DEF Purging, Removing, TypeOK
        <4>3. \A p \in Purging : p # q => purge'[p] = purge[p]
          BY <1>1 DEF Purging, TypeOK
        <4> QED BY <1>1, <2>2, <3>1, <4>1, <4>2, <4>3
                DEF Agreement, Synced, NoBeat, schedule
      <3>3. CASE node # "DELETE_REQUESTED"
        <4>1. purge'[q] = "done"
          BY <2>3, <3>3 DEF PurgeStart, SetPurge, TypeOK
        <4>2. Purging' = Purging /\ \A p \in Purging : purge'[p] = purge[p]
          BY <1>1, <3>1, <4>1 DEF Purging, Removing, TypeOK
        <4> QED BY <1>1, <2>2, <3>1, <4>2, BeatUntouched
      <3> QED BY <3>2, <3>3
    <2>4. ASSUME NEW r \in Run, PurgeBackup(q, r) PROVE Agreement'
      <3>1. UNCHANGED <<schedule, purge>>
        BY <2>4 DEF PurgeBackup
      <3> QED BY <1>1, <2>2, <3>1, BeatUntouched DEF Purging
    <2>5. CASE PurgeBeat(q) \/ PurgeRows(q)
      <3>1. q \in Purging /\ purge'[q] \in Removing
        BY <1>1, <2>5 DEF PurgeBeat, PurgeRows, SetPurge, Purging, Removing, TypeOK
      <3>2. Purging' = Purging
        BY <1>1, <3>1 DEF Purging, TypeOK
      <3>3. ScheduleHolders = {} /\ (Synced \/ NoBeat)
        BY <2>2, <3>1 DEF Agreement
      <3>4. NoBeat'
        <4>1. CASE PurgeBeat(q)
          BY <3>3, <4>1 DEF PurgeBeat, Synced, NoBeat, TypeOK
        <4>2. CASE PurgeRows(q)
          BY <2>2, <3>1, <4>2 DEF PurgeRows, DropSchedule, Agreement, NoBeat
        <4> QED BY <2>5, <4>1, <4>2
      <3> QED BY <1>1, <3>1, <3>2, <3>3, <3>4 DEF Agreement
    <2>6. CASE PurgeNode(q)
      <3>1. q \in Purging /\ purge[q] = "node" /\ purge'[q] = "done"
        BY <2>6 DEF PurgeNode, SetPurge, Purging, Removing, TypeOK
      <3>2. NoBeat /\ ScheduleHolders = {}
        BY <2>2, <3>1 DEF Agreement
      <3>3. NoBeat' /\ sched' \in {"none", "gone"}
        BY <2>6, <3>2 DEF PurgeNode, DropSchedule, NoBeat
      <3>4. Synced'
        BY <3>3 DEF Synced
      <3> QED BY <1>1, <3>2, <3>3, <3>4 DEF Agreement
    <2> QED BY <2>2, <2>3, <2>4, <2>5, <2>6 DEF PurgeStep
  <1> QED BY <1>2, <1>3 DEF BeatInv

LEMMA BeatOfRun ==
    ASSUME TypeOK, BeatInv, UNCHANGED <<schedule, request, purge, crossed>>
    PROVE  BeatInv'
  <1>1. /\ UNCHANGED <<op, at, seen, seenLink>>
        /\ ScheduleHolders' = ScheduleHolders /\ Purging' = Purging
    BY DEF request, ScheduleHolders, Purging
  <1>2. Phases'
    BY <1>1 DEF BeatInv, Phases
  <1>3. ~ crossed => Agreement'
    BY <1>1, BeatUntouched DEF BeatInv
  <1> QED BY <1>2, <1>3 DEF BeatInv

LEMMA StepBeatInv == TypeOK /\ ScheduleSeen /\ BeatInv /\ [Next]_vars => BeatInv'
  <1> SUFFICES ASSUME TypeOK, ScheduleSeen, BeatInv, [Next]_vars PROVE BeatInv'
    OBVIOUS
  <1>1. ASSUME NEW q \in Request, RequestStep(q) PROVE BeatInv'
    <2>1. Phases'
      BY <1>1, PhasesOfRequest DEF BeatInv
    <2>2. CASE SaveNode(q) \/ SendDelete(q)
      <3>1. crossed' = crossed
        BY <2>2 DEF SaveNode, SendDelete
      <3> QED BY <2>1, <2>2, <3>1, BeatOfNodeRequest DEF BeatInv
    <2>3. CASE ~ SaveNode(q) /\ ~ SendDelete(q)
      BY <1>1, <2>1, <2>3, BeatOfRequest DEF BeatInv, RequestStep
    <2> QED BY <2>2, <2>3
  <1>2. ASSUME NEW q \in Request, NEW o \in Op, LoadNode(q, o) PROVE BeatInv'
    <2>1. crossed' = crossed
      BY <1>2 DEF LoadNode
    <2> QED BY <1>2, <2>1, PhasesOfRequest, BeatOfNodeRequest DEF BeatInv
  <1>3. ASSUME NEW q \in Request, NEW o \in Op, LoadSchedule(q, o) PROVE BeatInv'
    BY <1>3, PhasesOfRequest, BeatOfLoad DEF BeatInv
  <1>4. ASSUME NEW r \in Run, RunStep(r) \/ Fire(r) \/ TimeLimit(r) \/ Cancel(r) PROVE BeatInv'
    <2>1. UNCHANGED <<schedule, request, purge, crossed>>
      BY <1>4 DEF RunStep, Fire, Gate, Initiated, Dumped, Over, DumpFails, TimeLimit, Cancel,
                  UploadBegin, UploadStore, Finalize, deletion
    <2> QED BY <2>1, BeatOfRun
  <1>5. CASE UNCHANGED vars
    BY <1>5, BeatOfRun DEF vars, schedule, request
  <1> QED BY <1>1, <1>2, <1>3, <1>4, <1>5, BeatOfPurge DEF Next

LEMMA BeatInvariant == Spec => []BeatInv
  BY StepBeatInv, InitBeatInv, TypeInvariant, PTL DEF Spec

\* The beat entry follows the schedule's row (schedule_update, schedule_create, destroy, the
\* deletion of the node) when requests neither overlap nor fail: no sequence of operations
\* leaves an entry that fires without an active row, or an active row that never fires.
THEOREM BeatAgrees == Spec => []BeatFollowsRow
  <1>1. BeatInv => BeatFollowsRow
    BY DEF BeatInv, Agreement, Synced, NoBeat, BeatFollowsRow
  <1> QED BY <1>1, BeatInvariant, PTL
=============================================================================
