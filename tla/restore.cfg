CONSTANTS
    r1 = r1
    r2 = r2
    f1 = f1
    f2 = f2
    Restores = {r1, r2}
    File = {f1, f2}
    Deleting = {r1}
    Engine = "website"
    Env = {"network", "copy", "broker", "crash"}

SPECIFICATION FairSpec
CHECK_DEADLOCK FALSE

INVARIANT TypeOK
INVARIANT CompleteMeansRestored
INVARIANT DeleteSparesTheBackup
INVARIANT LeftoversHaveSweeper
PROPERTY RestoreSettles
