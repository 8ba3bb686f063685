CONSTANTS
    Storage = {s1, s2, s3}
    Chunks = {a, b}
    Readers = {r1}
    MaxPuts = 2
    Rf = 3
    MaxActive = 1
    MaxGets = 0
    MaxDeletes = 0
    Repairers = {s1, s2}
    MaxCrashes = 0
    MaxRestarts = 0
    MaxLosses = 1
    MaxUnavailable = 0
    Drivers = {d1}
    MaxReconfigs = 1
SPECIFICATION FreshSpec
INVARIANTS ReadableThroughout
CHECK_DEADLOCK FALSE
