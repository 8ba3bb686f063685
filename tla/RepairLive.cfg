CONSTANTS
    Storage = {s1, s2, s3}
    Chunks = {a}
    Readers = {r1}
    MaxPuts = 2
    Rf = 3
    MaxActive = 1
    MaxGets = 0
    MaxDeletes = 0
    Repairers = {s1, s2, s3}
    MaxCrashes = 1
    MaxRestarts = 0
    MaxLosses = 0
    MaxUnavailable = 0
SPECIFICATION FairSpec
PROPERTIES RepairHeals
CHECK_DEADLOCK FALSE
