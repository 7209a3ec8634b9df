CONSTANTS
    t1 = t1
    t2 = t2
    Task = {t1, t2}
    Scheduled = {t1, t2}
    KeepLast = 1
    MaxRetries = 1
    Env = {"pause", "cancel", "late", "destroy", "crash", "lost", "hidden", "broker", "timeout", "exception"}

SPECIFICATION Spec
CONSTRAINT FewTouched
SYMMETRY TasksAlike
CHECK_DEADLOCK FALSE

INVARIANT TypeOK
INVARIANT OneActiveBackup
INVARIANT OneInFlight
INVARIANT CompleteHasSnapshot
INVARIANT NoForgottenSnapshot
INVARIANT ActiveHasWork
PROPERTY ImplementsPromise
