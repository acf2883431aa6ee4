SPECIFICATION MCSpec
CONSTANTS
    t1 = t1
    Tasks = {t1, t2}
    r1 = r1
    r2 = r2
    r3 = r3
    d1 = d1
    d2 = d2
    Repos = {r1, r2, r3}
    Dirs = {d1, d2}
    SafeRepo <- MCSafeRepo
    f1 = f1
    f2 = f2
    Files = {f1, f2}
    Wanted <- MCWanted
    Chunks = 2
    Capacity = 7
    Limit = 6
    MaxFaults = 1
    NoTask = NoTask
INVARIANTS SpaceBounded SoleOwnerHasFiles OneDownloadPerRepo CancelInTimeHolds
PROPERTY EveryDownloadEnds
CHECK_DEADLOCK FALSE
