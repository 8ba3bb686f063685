CONSTANTS
    Storage = {s1, s2}
    Chunks = {a}
    Readers = {r1}
    MaxPuts = 1
    Rf = 1
    MaxActive = 1
    MaxGets = 0
    MaxDeletes = 0
    Repairers = {}
    MaxCrashes = 0
    MaxRestarts = 0
    MaxLosses = 1
    MaxUnavailable = 0
    Drivers = {d1}
    MaxReconfigs = 1
SPECIFICATION FairRSpec
PROPERTIES ReturnsToStable
CHECK_DEADLOCK FALSE
