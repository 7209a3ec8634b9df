SPECIFICATION FairSpec
CONSTANTS
    t1 = t1  t2 = t2  t3 = t3
    r1 = r1  r2 = r2  r3 = r3
    s1 = s1  s2 = s2
    Task = {t1}
    Run = {r1}
    TaskOf <- OneTask
    Scheduled = {t1}
    Storage = {s1, s2}
    Drive = {}
    KeepLast = 1
    MaxRetries = 1
    MaxUploadRetries = 1
    Swallow = TRUE
    Env = {}
CHECK_DEADLOCK FALSE
PROPERTY BackupSettles DiskReclaimed
