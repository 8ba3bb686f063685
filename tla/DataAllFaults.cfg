CONSTANTS
    Storage = {s1, s2}
    Chunks = {a, b}
    Readers = {r1}
    MaxPuts = 2
    Rf = 2
    MaxActive = 2
    MaxGets = 0
    MaxDeletes = 1
    Repairers = {s1, s2}
    MaxCrashes = 1
    MaxRestarts = 1
    MaxLosses = 0
    MaxUnavailable = 1
SPECIFICATION Spec
SYMMETRY Sym
INVARIANTS StoreIntegrity
CHECK_DEADLOCK FALSE
