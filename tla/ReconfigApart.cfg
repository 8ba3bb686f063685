CONSTANTS
    Storage = {s1, s2, s3}
    Chunks = {a}
    Readers = {r1}
    MaxPuts = 2
    Rf = 3
    MaxActive = 1
    MaxGets = 1
    MaxDeletes = 0
    Repairers = {}
    MaxCrashes = 0
    MaxRestarts = 0
    MaxLosses = 1
    MaxUnavailable = 0
    Drivers = {d1}
    MaxReconfigs = 2
SPECIFICATION ApartSpec
SYMMETRY RSym
INVARIANTS ReadableThroughout NoStaleRead SameVersionSameData
PROPERTIES CommitInstallsData
CHECK_DEADLOCK FALSE
