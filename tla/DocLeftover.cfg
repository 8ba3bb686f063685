CONSTANTS
    Storage = {s1, s2, s3}
    Chunks = {a}
    Readers = {r1}
    MaxPuts = 3
    Rf = 3
    MaxActive = 1
    MaxGets = 1
    MaxDeletes = 0
    Repairers = {}
    MaxCrashes = 1
    MaxRestarts = 0
    MaxLosses = 2
    MaxUnavailable = 0
SPECIFICATION Spec
SYMMETRY Sym
INVARIANTS NoStaleRead
CHECK_DEADLOCK FALSE
