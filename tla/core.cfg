SPECIFICATION Spec
CONSTANTS
    t1 = t1  t2 = t2  t3 = t3
    r1 = r1  r2 = r2  r3 = r3
    s1 = s1  s2 = s2
    Task = {t1, t2, t3}
    Run = {r1, r2, r3}
    TaskOf <- OneRunEach
    Scheduled = {t1, t2, t3}
    Storage = {s1}
    Drive = {}
    KeepLast = 1
    MaxRetries = 0
    MaxUploadRetries = 0
    Swallow = TRUE
    Env = {}
CHECK_DEADLOCK FALSE
SYMMETRY TasksAlike
CONSTRAINT OneTaskSwept
INVARIANT TypeOK SingleFlight RetentionApplied ActiveHasWork
PROPERTY ImplementsPromise
