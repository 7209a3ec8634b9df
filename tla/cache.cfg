CONSTANTS
    r1 = r1
    r2 = r2
    r3 = r3
    p1 = p1
    p2 = p2
    p3 = p3
    c1 = c1
    c2 = c2
    Run = {r1, r2, r3}
    Path = {p1, p2, p3}
    Config = {c1, c2}
    Covers <- TwoServers
    Clash <- OneDirectory
    Env = {"network", "edit", "reset", "zip", "crash"}

SPECIFICATION FairSpec
CHECK_DEADLOCK FALSE

INVARIANT TypeOK
INVARIANT NoGaps
INVARIANT NoLeftovers
INVARIANT StampTellsCache

PROPERTY WaitingRunEnds
