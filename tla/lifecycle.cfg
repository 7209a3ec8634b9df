CONSTANTS
    q1 = q1  q2 = q2  q3 = q3
    b1 = b1  b2 = b2
    Request = {q1, q2}
    Op = {"pause", "resume", "delete", "edit", "create", "halt", "continue", "change", "destroy"}
    Run = {b1}
    MaxTries = 1
    Env = {"network", "limit", "cancel", "broker"}

SPECIFICATION FairSpec
CHECK_DEADLOCK FALSE

INVARIANT TypeOK
INVARIANT StatusIsLastAsked
INVARIANT BeatFollowsRow
INVARIANT DeletedLeavesOnlyLate
PROPERTY DeletionHappens
