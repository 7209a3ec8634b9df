SPECIFICATION Spec
CONSTANTS
    t1 = t1  t2 = t2  t3 = t3
    r1 = r1  r2 = r2  r3 = r3
    s1 = s1  s2 = s2
    Task = {t1, t2}
    Run = {r1, r2}
    TaskOf <- TwoTasks
    Scheduled = {t1, t2}
    Storage = {s1}
    Drive = {s1}
    KeepLast = 1
    MaxRetries = 0
    MaxUploadRetries = 0
    Swallow = TRUE
    Env = {"cancel", "late", "destroy", "pause"}
CHECK_DEADLOCK FALSE
CONSTRAINT FewTouched OneSweepEach
SYMMETRY TasksAlike
INVARIANT OneActiveBackup SettledIsQuiet
PROPERTY ImplementsPromise
