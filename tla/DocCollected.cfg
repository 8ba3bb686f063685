CONSTANTS
    Storage = {s1, s2}
    Chunks = {a}
    Readers = {r1}
    MaxPuts = 1
    Rf = 1
    MaxActive = 1
    MaxGets = 0
    MaxDeletes = 1
    Repairers = {s1, s2}
    MaxCrashes = 0
    MaxRestarts = 0
    MaxLosses = 0
    MaxUnavailable = 0
SPECIFICATION FairSpec
PROPERTIES Collected
CHECK_DEADLOCK FALSE
